---- MODULE Spec2Model ----
(***************************************************************************)
(* Model of the KSP release builder (src/Tools/KspReleaseBuilder.py): the  *)
(* macro resolver, the path resolver, the safe file system primitives and  *)
(* the release structure assembler.                                        *)
(*                                                                         *)
(* Strings are TLA+ strings; a character is a string of length one.  The   *)
(* Python library calls the builder makes (os.path.normpath, relpath,      *)
(* join, split, glob.glob, re.sub, shutil.copy, ...) are written out as    *)
(* operators that compute what the POSIX implementation computes.          *)
(*                                                                         *)
(* A value that is used more than once is bound as the parameter of a      *)
(* local operator (LET On(x) == ... IN On(value)), so that it is written   *)
(* and evaluated once.                                                     *)
(***************************************************************************)
EXTENDS Integers, Sequences, FiniteSets, TLC

\* ------------------------------------------------------------------------
\* Python string primitives
\* ------------------------------------------------------------------------

\* s[i] (1-based); "" past the end
Ch(s, i) ==
    IF i >= 1 /\ i <= Len(s) THEN SubSeq(s, i, i) ELSE ""

\* the text of s from position i to the end
From(s, i) ==
    IF i > Len(s) THEN "" ELSE SubSeq(s, i, Len(s))

\* the first i characters of s
Upto(s, i) ==
    IF i <= 0 THEN "" ELSE IF i > Len(s) THEN s ELSE SubSeq(s, 1, i)

\* s.startswith(p)
StartsWith(s, p) ==
    Len(p) <= Len(s) /\ SubSeq(s, 1, Len(p)) = p

\* s.endswith(p)
EndsWith(s, p) ==
    Len(p) <= Len(s) /\ SubSeq(s, Len(s) - Len(p) + 1, Len(s)) = p

\* sub in s
Contains(s, sub) ==
    \E i \in 1..(Len(s) + 1) :
        i + Len(sub) - 1 <= Len(s) /\ SubSeq(s, i, i + Len(sub) - 1) = sub

\* s.find(c, from): the first position >= from holding character c, 0 if none
FindCh(s, c, from) ==
    IF \E i \in from..Len(s) : SubSeq(s, i, i) = c
    THEN CHOOSE i \in from..Len(s) :
             SubSeq(s, i, i) = c /\ \A j \in from..(i - 1) : SubSeq(s, j, j) # c
    ELSE 0

\* s.rfind(c): the last position holding character c, 0 if none
RFindCh(s, c) ==
    IF \E i \in 1..Len(s) : SubSeq(s, i, i) = c
    THEN CHOOSE i \in 1..Len(s) :
             SubSeq(s, i, i) = c /\ \A j \in (i + 1)..Len(s) : SubSeq(s, j, j) # c
    ELSE 0

\* s.split(c)
RECURSIVE StrSplit(_, _)
StrSplit(s, c) ==
    LET At(i) == IF i = 0 THEN <<s>>
                 ELSE <<Upto(s, i - 1)>> \o StrSplit(From(s, i + 1), c)
    IN  At(FindCh(s, c, 1))

\* c.join(parts)
RECURSIVE StrJoin(_, _)
StrJoin(parts, c) ==
    IF Len(parts) = 0 THEN ""
    ELSE IF Len(parts) = 1 THEN parts[1]
    ELSE parts[1] \o c \o StrJoin(Tail(parts), c)

\* s.rstrip('/')
RECURSIVE RStripSlash(_)
RStripSlash(s) ==
    IF EndsWith(s, "/") THEN RStripSlash(SubSeq(s, 1, Len(s) - 1)) ELSE s

\* the printable ASCII characters in code order (the quotes, the parentheses,
\* the star and the backslash, which no destination key of the model holds,
\* are left out)
AsciiOrder ==
    " !#$%&+,-./0123456789:;<=>?@ABCDEFGHIJKLMNOPQRSTUVWXYZ[]^_abcdefghijklmnopqrstuvwxyz{|}~"

\* ord(c) up to an order-preserving renumbering
Ord(c) ==
    CHOOSE i \in 1..Len(AsciiOrder) : SubSeq(AsciiOrder, i, i) = c

\* cmp(x, y) of two byte strings: -1, 0, 1 written "lt", "eq", "gt"
RECURSIVE cmp(_, _)
cmp(x, y) ==
    IF x = "" /\ y = "" THEN "eq"
    ELSE IF x = "" THEN "lt"
    ELSE IF y = "" THEN "gt"
    ELSE IF Ch(x, 1) = Ch(y, 1) THEN cmp(From(x, 2), From(y, 2))
    ELSE IF Ord(Ch(x, 1)) < Ord(Ch(y, 1)) THEN "lt" ELSE "gt"

Digits ==
    {"0", "1", "2", "3", "4", "5", "6", "7", "8", "9"}

\* the characters the regular expression class \w matches
WordChars ==
    Digits \cup {"_"} \cup
    {"a", "b", "c", "d", "e", "f", "g", "h", "i", "j", "k", "l", "m",
     "n", "o", "p", "q", "r", "s", "t", "u", "v", "w", "x", "y", "z",
     "A", "B", "C", "D", "E", "F", "G", "H", "I", "J", "K", "L", "M",
     "N", "O", "P", "Q", "R", "S", "T", "U", "V", "W", "X", "Y", "Z"}

\* the end of the run of digits starting at position i of s; i - 1 if s[i]
\* is no digit
RECURSIVE DigitRun(_, _)
DigitRun(s, i) ==
    IF Ch(s, i) \in Digits THEN DigitRun(s, i + 1) ELSE i - 1

\* the value of a decimal digit
DigitVal(c) ==
    CHOOSE d \in 0..9 : SubSeq("0123456789", d + 1, d + 1) = c

\* the number a non-empty string of digits denotes
RECURSIVE Decimal(_)
Decimal(s) ==
    IF Len(s) = 1 THEN DigitVal(s)
    ELSE Decimal(SubSeq(s, 1, Len(s) - 1)) * 10 + DigitVal(Ch(s, Len(s)))

\* s.strip() of blanks
RECURSIVE StripBlanks(_)
StripBlanks(s) ==
    IF StartsWith(s, " ") THEN StripBlanks(From(s, 2))
    ELSE IF EndsWith(s, " ") THEN StripBlanks(Upto(s, Len(s) - 1))
    ELSE s

\* int(s) of a string: blanks around, an optional sign, digits; [ok, value]
int(s) ==
    LET Num(sign, d) ==
            IF d # "" /\ DigitRun(d, 1) = Len(d)
            THEN [ok |-> TRUE, value |-> sign * Decimal(d)]
            ELSE [ok |-> FALSE, value |-> 0]
        Signed(t) ==
            IF Ch(t, 1) = "-" THEN Num(-1, From(t, 2))
            ELSE IF Ch(t, 1) = "+" THEN Num(1, From(t, 2))
            ELSE Num(1, t)
    IN  Signed(StripBlanks(s))

\* '%d' % n
RECURSIVE str(_)
str(n) ==
    IF n < 0 THEN "-" \o str(0 - n)
    ELSE IF n < 10 THEN SubSeq("0123456789", n + 1, n + 1)
    ELSE str(n \div 10) \o SubSeq("0123456789", (n % 10) + 1, (n % 10) + 1)

\* ------------------------------------------------------------------------
\* os.path (POSIX)
\* ------------------------------------------------------------------------

\* the component loop of posixpath.normpath
RECURSIVE NormComps(_, _, _)
NormComps(comps, acc, initial_slashes) ==
    IF Len(comps) = 0 THEN acc
    ELSE IF Head(comps) = "" \/ Head(comps) = "."
        THEN NormComps(Tail(comps), acc, initial_slashes)
    ELSE IF Head(comps) # ".."
            \/ (~initial_slashes /\ Len(acc) = 0)
            \/ (Len(acc) > 0 /\ acc[Len(acc)] = "..")
        THEN NormComps(Tail(comps), Append(acc, Head(comps)), initial_slashes)
    ELSE IF Len(acc) > 0
        THEN NormComps(Tail(comps), SubSeq(acc, 1, Len(acc) - 1), initial_slashes)
    ELSE NormComps(Tail(comps), acc, initial_slashes)

\* os.path.normpath(path)
normpath(path) ==
    LET Built(body) ==
            IF StartsWith(path, "//") /\ ~StartsWith(path, "///")
                THEN "//" \o body
            ELSE IF StartsWith(path, "/") THEN "/" \o body
            ELSE IF body = "" THEN "." ELSE body
    IN  Built(StrJoin(NormComps(StrSplit(path, "/"), <<>>,
                                StartsWith(path, "/")), "/"))

\* os.path.join(a, b)
join(a, b) ==
    IF StartsWith(b, "/") THEN b
    ELSE IF a = "" \/ EndsWith(a, "/") THEN a \o b
    ELSE a \o "/" \o b

\* os.path.split(p): <<head, tail>>
split(p) ==
    LET Cut(i) ==
            LET Strip(head, stripped) ==
                    <<IF stripped = "" THEN head ELSE stripped, From(p, i + 1)>>
            IN  Strip(Upto(p, i), RStripSlash(Upto(p, i)))
    IN  Cut(RFindCh(p, "/"))

\* os.path.basename(p)
basename(p) ==
    From(p, RFindCh(p, "/") + 1)

\* os.path.dirname(p)
dirname(p) ==
    split(p)[1]

\* the non-empty components of a path
RECURSIVE NonEmpty(_)
NonEmpty(parts) ==
    IF Len(parts) = 0 THEN <<>>
    ELSE IF Head(parts) = "" THEN NonEmpty(Tail(parts))
    ELSE <<Head(parts)>> \o NonEmpty(Tail(parts))

\* the length of the longest common prefix of two component lists
RECURSIVE CommonLen(_, _)
CommonLen(a, b) ==
    IF Len(a) = 0 \/ Len(b) = 0 \/ Head(a) # Head(b) THEN 0
    ELSE 1 + CommonLen(Tail(a), Tail(b))

\* ------------------------------------------------------------------------
\* The builder's configuration
\* ------------------------------------------------------------------------

VARIABLES
    attrs,            \* the builder's attributes by name; "" is None or ''
    STRUCTURE,        \* the (key, patterns) pairs in the dict's iteration order
    fs,               \* the file system: path -> "dir", or a file's content
    pc,               \* the step of MakeRelease the run is at
    err,              \* "" while running, else the kind of the fatal error
    err_pattern,      \* the raw source pattern being handled when the run died
    sorted_targets,   \* the (key, patterns) pairs in processing order
    ei,               \* index of the entry being processed
    pi,               \* index of the next source pattern of the entry
    dest_path,        \* the entry's resolved destination folder
    copy_sources,     \* None, or the list of sources to copy
    drop_patterns,    \* the entry's deletion patterns, '-' stripped
    ci,               \* index of the next source to copy
    di,               \* index of the next deletion pattern
    source,           \* the loop variable of the copy loop; Unbound at first
    log,              \* history: the file system calls made so far
    q,                \* path resolver call: the arguments
    r,                \* path resolver call: the outcome
    m_tpl,            \* macro resolver call: the template given
    m_stack,          \* macro resolver call: the parse_macros frames
    m_parents,        \* macro resolver call: the parents list
    m_out,            \* macro resolver call: the text produced so far
    m_err,            \* macro resolver call: "" or the error
    runs,             \* the number of the run of the builder on this project
    first_release,    \* the release folder as the first run left it
    opts,             \* the command line: settings mode, -p, -o
    content,          \* the parsed settings file
    code,             \* the exit code of the compile script
    VERSION,          \* the version tuple; <<>> is None
    site,             \* the client module in use: CurseForge, GitHub, Spacedock
    API_TOKEN,        \* client global; "" is None
    API_LOGIN,        \* client global of SpacedockClient; "" is None
    API_PASS,         \* client global of SpacedockClient; "" is None
    cached_versions,  \* client global: None, or the list of game versions
    authorized_cookie, \* client global of SpacedockClient; "" is None
    requests,         \* history: the requests sent to the server, in order
    calls,            \* the number of client calls made so far
    outcome,          \* the value the last client call returned, or its error
    stage,            \* the position of the publish script
    choice,           \* the answer read at the prompt of the publish script
    job,              \* the command line and files of the publish script
    folders,          \* make_release-1.0: the keys of STRUCTURE, sorted
    fi                \* make_release-1.0: index of the key being processed

cfg_vars == <<attrs, STRUCTURE>>
run_vars == <<fs, pc, err, err_pattern, sorted_targets, ei, pi, dest_path,
              copy_sources, drop_patterns, ci, di, source, log>>
path_vars == <<q, r>>
macro_vars == <<m_tpl, m_stack, m_parents, m_out, m_err>>
rerun_vars == <<runs, first_release>>
release_vars == <<opts, content, code, VERSION>>
client_vars == <<site, API_TOKEN, API_LOGIN, API_PASS, cached_versions,
                 authorized_cookie, requests, calls, outcome>>
publish_vars == <<stage, choice, job>>
net_vars == <<client_vars, publish_vars>>
legacy_vars == <<folders, fi>>
ext_vars == <<rerun_vars, release_vars, net_vars, legacy_vars>>
vars == <<cfg_vars, run_vars, path_vars, macro_vars, ext_vars>>

\* an unassigned local variable
Unbound == "<unbound>"

\* the folder of the script or of the settings file; the working directory
\* after __Step_CompileBinary's os.chdir
ABS_SCRIPT_ROOT == "/w"

\* __ResolveProjectRoot, for a PROJECT_ROOT given in the settings
ABS_PROJECT_ROOT ==
    join(ABS_SCRIPT_ROOT, attrs["PROJECT_ROOT"])

\* os.path.abspath(path), the working directory being ABS_SCRIPT_ROOT
abspath(path) ==
    normpath(IF StartsWith(path, "/") THEN path ELSE join(ABS_SCRIPT_ROOT, path))

\* os.path.relpath(path, start)
relpath(path, start) ==
    LET Rel(start_list, path_list) ==
            LET Cut(i) ==
                    IF i = Len(start_list) /\ i = Len(path_list) THEN "."
                    ELSE StrJoin([k \in 1..(Len(start_list) - i) |-> ".."]
                                 \o SubSeq(path_list, i + 1, Len(path_list)), "/")
            IN  Cut(CommonLen(start_list, path_list))
    IN  Rel(NonEmpty(StrSplit(abspath(start), "/")),
            NonEmpty(StrSplit(abspath(path), "/")))

\* ------------------------------------------------------------------------
\* Macro resolver
\* ------------------------------------------------------------------------

\* the number of \w characters of s from position i on
RECURSIVE WordRun(_, _)
WordRun(s, i) ==
    IF i <= Len(s) /\ SubSeq(s, i, i) \in WordChars THEN 1 + WordRun(s, i + 1) ELSE 0

\* the position of the '}' closing a match of \{(\D\w*)} that starts at i,
\* 0 when there is no match at i
MacroEnd(s, i) ==
    IF Ch(s, i) = "{" /\ i + 1 <= Len(s) /\ Ch(s, i + 1) \notin Digits
    THEN LET Close(j) == IF Ch(s, j) = "}" THEN j ELSE 0
         IN  Close(i + 2 + WordRun(s, i + 2))
    ELSE 0

\* the start of the leftmost match of \{(\D\w*)} at or after from, 0 if none
FindMacro(s, from) ==
    IF \E i \in from..Len(s) : MacroEnd(s, i) # 0
    THEN CHOOSE i \in from..Len(s) :
             MacroEnd(s, i) # 0 /\ \A j \in from..(i - 1) : MacroEnd(s, j) = 0
    ELSE 0

\* key in parents
InSeq(x, seq) ==
    \E k \in 1..Len(seq) : seq[k] = x

\* the value substituted for a macro with no value
Sentinel(key) ==
    "{" \o key \o "=>NULL}"

\* get_macro_value(key) without the recursion check of lines 191-193: the
\* resolver the properties are tested against to see the check matters
get_macro_value_unguarded(key, parents) ==
    IF StartsWith(key, "__")
        THEN [err |-> "RestrictedMacroError", value |-> "",
              parents |-> Append(parents, key)]
    ELSE IF key \notin DOMAIN attrs
        THEN [err |-> "UnknownMacroError", value |-> "",
              parents |-> Append(parents, key)]
    ELSE [err |-> "",
          value |-> IF attrs[key] = "" THEN Sentinel(key) ELSE attrs[key],
          parents |-> Append(parents, key)]

\* get_macro_value(key) with the parents list made explicit
get_macro_value(key, parents) ==
    IF InSeq(key, parents)
        THEN [err |-> "CycleError", value |-> "", parents |-> parents]
    ELSE IF StartsWith(key, "__")
        THEN [err |-> "RestrictedMacroError", value |-> "",
              parents |-> Append(parents, key)]
    ELSE IF key \notin DOMAIN attrs
        THEN [err |-> "UnknownMacroError", value |-> "",
              parents |-> Append(parents, key)]
    ELSE [err |-> "",
          value |-> IF attrs[key] = "" THEN Sentinel(key) ELSE attrs[key],
          parents |-> Append(parents, key)]

\* parse_macros(value): re.sub over the matches from left to right, each
\* replaced by the parsed value of its macro; parents is shared by the
\* whole call of __ParseMacros and only grows
RECURSIVE parse_macros(_, _)
parse_macros(value, parents) ==
    LET Match(a, b) ==
            LET Rest(inner, rest) ==
                    IF rest.err # "" THEN rest
                    ELSE [err |-> "",
                          out |-> Upto(value, a - 1) \o inner.out \o rest.out,
                          parents |-> rest.parents]
                Inner(inner) ==
                    IF inner.err # "" THEN inner
                    ELSE Rest(inner,
                              parse_macros(From(value, b + 1), inner.parents))
                Got(g) ==
                    IF g.err # ""
                        THEN [err |-> g.err, out |-> "", parents |-> g.parents]
                    ELSE Inner(parse_macros(g.value, g.parents))
            IN  Got(get_macro_value(SubSeq(value, a + 1, b - 1), parents))
        At(a) ==
            IF a = 0 THEN [err |-> "", out |-> value, parents |-> parents]
            ELSE Match(a, MacroEnd(value, a))
    IN  At(FindMacro(value, 1))

\* __ParseMacros(value): [err, out]
ParseMacros(value) ==
    LET Result(res) == [err |-> res.err, out |-> res.out]
    IN  Result(parse_macros(value, <<>>))

\* ------------------------------------------------------------------------
\* Path resolver
\* ------------------------------------------------------------------------

\* the marker searched for in a resolved path
NullMark == "=>NULL"

\* a failed resolution
Fail(kind) ==
    [err |-> kind, path |-> ""]

\* the two checks, the second one left out when unresolved paths are allowed:
\* a resolver that lets optional patterns leave the root
CheckResolvedUnlessAllowed(abs_path, abs_root, allow_unresolved) ==
    IF Contains(abs_path, NullMark) /\ ~allow_unresolved
        THEN Fail("UnresolvedPathError")
    ELSE IF ~allow_unresolved /\ StartsWith(relpath(abs_path, abs_root), "..")
        THEN Fail("PathEscapeError")
    ELSE [err |-> "", path |-> abs_path]

\* the two checks at the end of __MakeSrcPath and __MakeDestPath
CheckResolved(abs_path, abs_root, allow_unresolved) ==
    IF Contains(abs_path, NullMark) /\ ~allow_unresolved
        THEN Fail("UnresolvedPathError")
    ELSE IF StartsWith(relpath(abs_path, abs_root), "..")
        THEN Fail("PathEscapeError")
    ELSE [err |-> "", path |-> abs_path]

\* what __MakeSrcPath and __MakeDestPath join: the root, the subfolder for a
\* relative path, the path; [err, text]
JoinParts(abs_root, rel_path, subfolder) ==
    LET Sub(rel, sub) ==
            IF sub.err # "" THEN [err |-> sub.err, text |-> ""]
            ELSE [err |-> "",
                  text |-> StrJoin(<<abs_root, sub.out, rel.out>>, "/")]
        Rel(rel) ==
            IF rel.err # "" THEN [err |-> rel.err, text |-> ""]
            ELSE IF rel.out = "" \/ Ch(rel.out, 1) # "/"
                THEN Sub(rel, ParseMacros(subfolder))
            ELSE [err |-> "", text |-> StrJoin(<<abs_root, rel.out>>, "/")]
    IN  Rel(ParseMacros(rel_path))

\* the end of __MakeSrcPath and __MakeDestPath: normalize, then check
Checked(parts, abs_root, allow_unresolved) ==
    IF parts.err # "" THEN Fail(parts.err)
    ELSE CheckResolved(normpath(parts.text), abs_root, allow_unresolved)

\* __MakeSrcPath(rel_path, allow_unresolved): [err, path]
MakeSrcPath(rel_path, allow_unresolved) ==
    Checked(JoinParts(ABS_PROJECT_ROOT, rel_path, attrs["SOURCE"]),
            ABS_PROJECT_ROOT, allow_unresolved)

\* the root of __MakeDestPath: [err, path]
GameDataRoot ==
    LET Root(rel) ==
            IF rel.err # "" THEN Fail(rel.err)
            ELSE [err |-> "", path |-> normpath(join(ABS_PROJECT_ROOT, rel.out))]
    IN  Root(ParseMacros("{RELEASE}/GameData"))

\* __MakeDestPath(rel_path, allow_unresolved): [err, path]
MakeDestPath(rel_path, allow_unresolved) ==
    LET Dest(root) ==
            IF root.err # "" THEN Fail(root.err)
            ELSE Checked(JoinParts(root.path, rel_path,
                                   attrs["RELEASE_MOD_FOLDER"]),
                         root.path, allow_unresolved)
    IN  Dest(GameDataRoot)

\* __GetAbsReleaseFolder(): [err, path]
GetAbsReleaseFolder ==
    LET Folder(rel) ==
            IF rel.err # "" THEN Fail(rel.err)
            ELSE [err |-> "", path |-> join(ABS_PROJECT_ROOT, rel.out)]
    IN  Folder(ParseMacros(attrs["RELEASE"]))

\* ------------------------------------------------------------------------
\* The file system
\* ------------------------------------------------------------------------

\* os.path.lexists(p)
exists(f, p) ==
    p \in DOMAIN f

\* os.path.isdir(p)
isdir(f, p) ==
    p \in DOMAIN f /\ f[p] = "dir"

\* os.path.isfile(p)
isfile(f, p) ==
    p \in DOMAIN f /\ f[p] # "dir"

\* p is d or lies beneath d (both normalized absolute paths)
Under(p, d) ==
    p = d \/ d = "/" \/ StartsWith(p, d \o "/")

\* p and its ancestors, from "/" down
Prefixes(p) ==
    LET Of(c) == {"/" \o StrJoin(SubSeq(c, 1, k), "/") : k \in 0..Len(c)}
    IN  Of(NonEmpty(StrSplit(p, "/")))

\* os.listdir(d); empty when d is no folder
listdir(f, d) ==
    IF isdir(f, d)
    THEN {basename(x) : x \in {y \in DOMAIN f : y # d /\ y # "/" /\ dirname(y) = d}}
    ELSE {}

\* the result of a file system call: the new file system, the error raised
\* ("" if none), the calls made as (op, path) records
FsResult(f, e, ops) ==
    [fs |-> f, err |-> e, ops |-> ops]

\* f without the paths of the set gone
Without(f, gone) ==
    [x \in DOMAIN f \ gone |-> f[x]]

\* f with the entries of g added or overwritten
With(f, g) ==
    [x \in DOMAIN f \cup DOMAIN g |-> IF x \in DOMAIN g THEN g[x] ELSE f[x]]

\* os.makedirs(p): p and its missing ancestors are created; fails when p
\* exists or an ancestor is a file
makedirs(f, p) ==
    LET Make(missing) ==
            IF exists(f, p) \/ \E a \in Prefixes(p) : isfile(f, a)
            THEN FsResult(f, "OSError", {})
            ELSE FsResult(With(f, [a \in missing |-> "dir"]), "",
                          {[op |-> "mkdir", path |-> a] : a \in missing})
    IN  Make({a \in Prefixes(p) : ~exists(f, a)})

\* shutil.copy(src, dst) of a file
copy(f, src, dst) ==
    LET To(target) ==
            IF target = src \/ isdir(f, target) \/ ~isdir(f, dirname(target))
            THEN FsResult(f, "IOError", {})
            ELSE FsResult(With(f, [x \in {target} |-> f[src]]), "",
                          {[op |-> "copy", path |-> target]})
    IN  To(IF isdir(f, dst) THEN join(dst, basename(src)) ELSE dst)

\* shutil.copytree(src, dst) of a folder that does not hold dst: fails when
\* dst exists, else creates dst and copies the subtree
copytree(f, src, dst) ==
    LET Tree(made, below) ==
            IF made.err # "" THEN made
            ELSE FsResult(With(made.fs,
                               [y \in {dst \o From(x, Len(src) + 1) : x \in below} |->
                                   f[src \o From(y, Len(dst) + 1)]]),
                          "",
                          made.ops \cup {[op |-> "copytree", path |-> dst]})
    IN  Tree(makedirs(f, dst), {x \in DOMAIN f : x # src /\ Under(x, src)})

\* os.unlink(p) of a file
unlink(f, p) ==
    FsResult(Without(f, {p}), "", {[op |-> "unlink", path |-> p]})

\* shutil.rmtree that removes the folder entry and leaves what is beneath it
rmtree_top(f, p) ==
    FsResult(Without(f, {p}), "", {[op |-> "rmtree", path |-> p]})

\* shutil.rmtree(p, True): errors, a missing p among them, are ignored
rmtree(f, p) ==
    FsResult(Without(f, {x \in DOMAIN f : Under(x, p)}), "",
             {[op |-> "rmtree", path |-> p]})

\* ------------------------------------------------------------------------
\* glob.glob
\* ------------------------------------------------------------------------

\* glob.has_magic(s)
has_magic(s) ==
    \E i \in 1..Len(s) : Ch(s, i) \in {"*", "?", "["}

\* fnmatch.fnmatch(name, pat) for patterns of literals, '*' and '?'
RECURSIVE fnmatch(_, _)
fnmatch(name, pat) ==
    IF pat = "" THEN name = ""
    ELSE IF Ch(pat, 1) = "*"
        THEN fnmatch(name, From(pat, 2))
             \/ (name # "" /\ fnmatch(From(name, 2), pat))
    ELSE IF Ch(pat, 1) = "?"
        THEN name # "" /\ fnmatch(From(name, 2), From(pat, 2))
    ELSE name # "" /\ Ch(name, 1) = Ch(pat, 1)
         /\ fnmatch(From(name, 2), From(pat, 2))

\* glob.glob1(dirname, pattern)
glob1(f, d, pat) ==
    {n \in listdir(f, d) : (Ch(pat, 1) = "." \/ Ch(n, 1) # ".") /\ fnmatch(n, pat)}

\* glob.glob0(dirname, basename)
glob0(f, d, b) ==
    IF b = "" THEN (IF isdir(f, d) THEN {""} ELSE {})
    ELSE IF exists(f, join(d, b)) THEN {b} ELSE {}

\* glob.glob(pathname) as a set; the order of the list is os.listdir's
RECURSIVE glob(_, _)
glob(f, pathname) ==
    IF ~has_magic(pathname)
    THEN (IF exists(f, pathname) THEN {pathname} ELSE {})
    ELSE LET In(d, b) ==
                 UNION {{join(dd, n) :
                            n \in IF has_magic(b) THEN glob1(f, dd, b)
                                  ELSE glob0(f, dd, b)} :
                        dd \in IF d # pathname /\ has_magic(d) THEN glob(f, d)
                               ELSE {d}}
         IN  In(split(pathname)[1], basename(pathname))

\* the lists holding each element of a finite set once
Orderings(S) ==
    {o \in [1..Cardinality(S) -> S] : \A i, j \in DOMAIN o : o[i] = o[j] => i = j}

\* ------------------------------------------------------------------------
\* Safe file system primitives
\* ------------------------------------------------------------------------

\* __CheckChroot(test_path, chroot); chroot = "" stands for no chroot given:
\* [err, path]
CheckChroot(test_path, chroot) ==
    LET Inside(abs_test_path, abs_chroot) ==
            IF StartsWith(relpath(abs_test_path, abs_chroot), "..")
                THEN Fail("RuntimeError")
            ELSE [err |-> "", path |-> abs_test_path]
        Root(t, c) ==
            IF c.err # "" THEN Fail(c.err)
            ELSE Inside(abspath(t.out), abspath(c.out))
        Test(t) ==
            IF t.err # "" THEN Fail(t.err)
            ELSE Root(t, ParseMacros(IF chroot = "" THEN attrs["PROJECT_ROOT"]
                                     ELSE chroot))
    IN  Test(ParseMacros(test_path))

\* __OsSafeMakedirs(folder)
OsSafeMakedirs(f, folder) ==
    LET Make(abs_path) ==
            IF abs_path.err # "" THEN FsResult(f, abs_path.err, {})
            ELSE IF ~isdir(f, abs_path.path) THEN makedirs(f, abs_path.path)
            ELSE FsResult(f, "", {})
    IN  Make(CheckChroot(folder, ""))

\* __OsSafeCopyToRelease(src, dest)
OsSafeCopyToRelease(f, src, dest) ==
    LET Both(made, done) ==
            FsResult(done.fs, done.err, made.ops \cup done.ops)
        File(abs_src, abs_dest, made) ==
            IF made.err # "" THEN made
            ELSE Both(made, copy(made.fs, abs_src, abs_dest))
        Copy(abs_src, abs_dest) ==
            IF abs_dest.err # "" THEN FsResult(f, abs_dest.err, {})
            ELSE IF isfile(f, abs_src.path)
                THEN File(abs_src.path, abs_dest.path,
                          OsSafeMakedirs(f, abs_dest.path))
            ELSE IF isdir(f, abs_src.path)
                THEN copytree(f, abs_src.path,
                              join(abs_dest.path, basename(abs_src.path)))
            ELSE FsResult(f, "SourceMissingError", {})
        Dest(abs_src, release) ==
            IF release.err # "" THEN FsResult(f, release.err, {})
            ELSE Copy(abs_src, CheckChroot(dest, release.path))
        Src(abs_src) ==
            IF abs_src.err # "" THEN FsResult(f, abs_src.err, {})
            ELSE Dest(abs_src, GetAbsReleaseFolder)
    IN  Src(CheckChroot(src, ""))

\* __OsSafeDeleteFromDest(path)
OsSafeDeleteFromDest(f, path) ==
    LET Delete(abs_path) ==
            IF abs_path.err # "" THEN FsResult(f, abs_path.err, {})
            ELSE IF isfile(f, abs_path.path) THEN unlink(f, abs_path.path)
            ELSE rmtree(f, abs_path.path)
        In(release) ==
            IF release.err # "" THEN FsResult(f, release.err, {})
            ELSE Delete(CheckChroot(path, release.path))
    IN  In(GetAbsReleaseFolder)

\* ------------------------------------------------------------------------
\* Structure assembler: __Step_MakeFoldersStructure
\* ------------------------------------------------------------------------

\* a key is rooted when it starts with '/'
Rooted(x) ==
    x # "" /\ Ch(x, 1) = "/"

\* a comparison that ignores the rooted keys: plain cmp
cmp_only(x, y) ==
    cmp(x, y)

\* target_cmp_fn(x, y)
target_cmp_fn(x, y) ==
    IF Rooted(x) /\ ~Rooted(y) THEN "lt"
    ELSE IF Rooted(y) /\ ~Rooted(x) THEN "gt"
    ELSE cmp(x, y)

\* one step of the stable sort: e goes behind the elements not greater than it
RECURSIVE InsertSorted(_, _)
InsertSorted(e, seq) ==
    IF Len(seq) = 0 THEN <<e>>
    ELSE IF target_cmp_fn(e.key, seq[Len(seq)].key) = "lt"
        THEN Append(InsertSorted(e, SubSeq(seq, 1, Len(seq) - 1)), seq[Len(seq)])
    ELSE Append(seq, e)

\* sorted(self.STRUCTURE.iteritems(), key=lambda x: x[0], cmp=target_cmp_fn)
RECURSIVE sorted(_)
sorted(items) ==
    IF Len(items) = 0 THEN <<>>
    ELSE InsertSorted(items[Len(items)], sorted(SubSeq(items, 1, Len(items) - 1)))

\* the check of a deletion pattern without its test of the head
DropScopeNoHead(rel) ==
    ~StartsWith(rel, "..")

\* the check of a deletion pattern's path relative to the entry's folder
DropScopeOk(rel) ==
    ~(StartsWith(rel, "..") \/ split(rel)[1] # "")

\* a modifier read from the first character of the expanded pattern
ModifierOfExpansion(src_pattern) ==
    LET First(x) ==
            IF x.err # "" \/ x.out = "" THEN ""
            ELSE IF Ch(x.out, 1) = "?" THEN "?"
            ELSE IF Ch(x.out, 1) = "-" THEN "-"
            ELSE ""
    IN  First(ParseMacros(src_pattern))

\* lines 331, 337, 341: the branch a pattern takes, from src_pattern[0]
Modifier(src_pattern) ==
    IF Ch(src_pattern, 1) = "?" THEN "?"
    ELSE IF Ch(src_pattern, 1) = "-" THEN "-"
    ELSE ""

\* for target in targets: self.__OsSafeDeleteFromDest(target)
RECURSIVE DeleteAll(_, _)
DeleteAll(f, targets) ==
    IF Len(targets) = 0 THEN FsResult(f, "", {})
    ELSE LET Rest(first, rest) ==
                 FsResult(rest.fs, rest.err, first.ops \cup rest.ops)
             First(first) ==
                 IF first.err # "" THEN first
                 ELSE Rest(first, DeleteAll(first.fs, Tail(targets)))
         IN  First(OsSafeDeleteFromDest(f, Head(targets)))

\* the history records of the file system calls of one step
Tag(ops, phase, pat) ==
    {[op |-> o.op, path |-> o.path, phase |-> phase, ei |-> ei,
      dest |-> dest_path, pat |-> pat] : o \in ops}

\* an error that is reported without ending the run
ReportOnly(kind, pat) ==
    /\ pc' = pc
    /\ err' = kind
    /\ err_pattern' = pat

\* exit(-1), or an exception nobody catches
Die(kind, pat) ==
    /\ pc' = "Exit"
    /\ err' = kind
    /\ err_pattern' = pat

\* __Step_CleanupReleaseFolder
CleanupReleaseFolder ==
    /\ pc = "CleanupReleaseFolder"
    /\ LET Deleted(res) ==
               IF res.err # ""
                   THEN Die(res.err, "") /\ UNCHANGED <<fs, log>>
               ELSE /\ fs' = res.fs
                    /\ log' = log \cup Tag(res.ops, "wipe", "")
                    /\ pc' = "ExtractVersion"
                    /\ UNCHANGED <<err, err_pattern>>
           Wipe(path) ==
               IF path.err # ""
                   THEN Die(path.err, "") /\ UNCHANGED <<fs, log>>
               ELSE Deleted(OsSafeDeleteFromDest(fs, path.path))
       IN  Wipe(GetAbsReleaseFolder)
    /\ UNCHANGED <<sorted_targets, ei, pi, dest_path, copy_sources,
                   drop_patterns, ci, di, source>>
    /\ UNCHANGED <<cfg_vars, path_vars, macro_vars, ext_vars>>

\* lines 319-321: the entries are sorted
SortTargets ==
    /\ pc = "MakeFoldersStructure"
    /\ sorted_targets' = sorted(STRUCTURE)
    /\ ei' = 1
    /\ pc' = "Entry"
    /\ UNCHANGED <<fs, err, err_pattern, pi, dest_path, copy_sources,
                   drop_patterns, ci, di, source, log>>
    /\ UNCHANGED <<cfg_vars, path_vars, macro_vars, ext_vars>>

\* lines 322-326: the next entry's destination folder is resolved
ResolveDest ==
    /\ pc = "Entry"
    /\ ei <= Len(sorted_targets)
    /\ LET Resolved(res) ==
               IF res.err # ""
                   THEN /\ Die(res.err, "")
                        /\ UNCHANGED <<dest_path, pi>>
               ELSE /\ dest_path' = res.path
                    /\ pi' = 1
                    /\ pc' = "Pattern"
                    /\ UNCHANGED <<err, err_pattern>>
       IN  Resolved(MakeDestPath(sorted_targets[ei].key, FALSE))
    /\ copy_sources' = [isNone |-> TRUE, items |-> <<>>]
    /\ drop_patterns' = <<>>
    /\ UNCHANGED <<fs, sorted_targets, ei, ci, di, source, log>>
    /\ UNCHANGED <<cfg_vars, path_vars, macro_vars, ext_vars>>

\* lines 327-354: one source pattern of the entry is classified, resolved and
\* matched
ScanPattern ==
    /\ pc = "Pattern"
    /\ pi <= Len(sorted_targets[ei].pats)
    /\ LET Matched(src_pattern, allow_no_matches, entry_sources) ==
               IF entry_sources = {} /\ ~allow_no_matches
                   THEN /\ Die("NoMatchError", src_pattern)
                        /\ UNCHANGED <<pi, copy_sources, drop_patterns>>
               ELSE /\ \E order \in Orderings(entry_sources) :
                           copy_sources' = [isNone |-> FALSE,
                                            items |-> copy_sources.items \o order]
                    /\ pi' = pi + 1
                    /\ UNCHANGED <<pc, err, err_pattern, drop_patterns>>
           Resolved(src_pattern, allow_no_matches, pattern) ==
               IF pattern.err # ""
                   THEN /\ Die(pattern.err, src_pattern)
                        /\ UNCHANGED <<pi, copy_sources, drop_patterns>>
               ELSE IF allow_no_matches /\ Contains(pattern.path, NullMark)
                   THEN /\ pi' = pi + 1
                        /\ UNCHANGED <<pc, err, err_pattern, copy_sources,
                                       drop_patterns>>
               ELSE Matched(src_pattern, allow_no_matches, glob(fs, pattern.path))
           Scan(src_pattern) ==
               IF src_pattern = ""
                   THEN /\ Die("IndexError", src_pattern)
                        /\ UNCHANGED <<pi, copy_sources, drop_patterns>>
               ELSE IF Modifier(src_pattern) = "?"
                   THEN Resolved(src_pattern, TRUE,
                                 MakeSrcPath(From(src_pattern, 2), TRUE))
               ELSE IF Modifier(src_pattern) = "-"
                   THEN /\ drop_patterns' = Append(drop_patterns, From(src_pattern, 2))
                        /\ pi' = pi + 1
                        /\ UNCHANGED <<pc, err, err_pattern, copy_sources>>
               ELSE Resolved(src_pattern, FALSE, MakeSrcPath(src_pattern, FALSE))
       IN  Scan(sorted_targets[ei].pats[pi])
    /\ UNCHANGED <<fs, sorted_targets, ei, dest_path, ci, di, source, log>>
    /\ UNCHANGED <<cfg_vars, path_vars, macro_vars, ext_vars>>

\* a pattern loop that may be left at any time
PatternsLeft ==
    TRUE

\* lines 327-354: the pattern loop has no pattern left
PatternsDone ==
    pi > Len(sorted_targets[ei].pats)

\* the pattern loop of the entry ends
EndPatterns ==
    /\ pc = "Pattern"
    /\ PatternsDone
    /\ pc' = "Copy"
    /\ ci' = 1
    /\ UNCHANGED <<fs, err, err_pattern, sorted_targets, ei, pi, dest_path,
                   copy_sources, drop_patterns, di, source, log>>
    /\ UNCHANGED <<cfg_vars, path_vars, macro_vars, ext_vars>>

\* lines 357-359: one source is copied
CopySource ==
    /\ pc = "Copy"
    /\ ~copy_sources.isNone
    /\ ci <= Len(copy_sources.items)
    /\ LET Copied(res) ==
               /\ fs' = res.fs
               /\ log' = log \cup Tag(res.ops, "copy", copy_sources.items[ci])
               /\ IF res.err # ""
                      THEN Die(res.err, "") /\ UNCHANGED ci
                  ELSE ci' = ci + 1 /\ UNCHANGED <<pc, err, err_pattern>>
       IN  Copied(OsSafeCopyToRelease(fs, copy_sources.items[ci], dest_path))
    /\ source' = copy_sources.items[ci]
    /\ UNCHANGED <<sorted_targets, ei, pi, dest_path, copy_sources,
                   drop_patterns, di>>
    /\ UNCHANGED <<cfg_vars, path_vars, macro_vars, ext_vars>>

\* a copy loop that may be left at any time
CopiesSkipped ==
    TRUE

\* lines 357-359: the copy loop has no source left, or there is no list
CopiesDone ==
    IF copy_sources.isNone THEN TRUE ELSE ci > Len(copy_sources.items)

\* lines 360-361: the copy loop is over; an empty list prints the loop
\* variable
EndCopy ==
    /\ pc = "Copy"
    /\ CopiesDone
    /\ IF ~copy_sources.isNone /\ Len(copy_sources.items) = 0 /\ source = Unbound
           THEN Die("UnboundLocalError", "") /\ UNCHANGED di
       ELSE pc' = "Drop" /\ di' = 1 /\ UNCHANGED <<err, err_pattern>>
    /\ UNCHANGED <<fs, sorted_targets, ei, pi, dest_path, copy_sources,
                   drop_patterns, ci, source, log>>
    /\ UNCHANGED <<cfg_vars, path_vars, macro_vars, ext_vars>>

\* lines 364-377: one deletion pattern is resolved, checked and applied
DropPattern ==
    /\ pc = "Drop"
    /\ di <= Len(drop_patterns)
    /\ LET Deleted(pattern, res) ==
               /\ fs' = res.fs
               /\ log' = log \cup Tag(res.ops, "drop", pattern)
               /\ IF res.err # ""
                      THEN Die(res.err, "-" \o pattern) /\ UNCHANGED di
                  ELSE di' = di + 1 /\ UNCHANGED <<pc, err, err_pattern>>
           Scoped(pattern, cleanup_path) ==
               IF cleanup_path.err # ""
                   THEN /\ Die(cleanup_path.err, "-" \o pattern)
                        /\ UNCHANGED <<fs, log, di>>
               ELSE IF ~DropScopeOk(relpath(cleanup_path.path, dest_path))
                   THEN /\ Die("InvalidDeletionScopeError", "-" \o pattern)
                        /\ UNCHANGED <<fs, log, di>>
               ELSE \E targets \in Orderings(glob(fs, cleanup_path.path)) :
                        Deleted(pattern, DeleteAll(fs, targets))
           Drop(pattern) ==
               Scoped(pattern,
                      MakeDestPath(join(sorted_targets[ei].key, pattern), FALSE))
       IN  Drop(drop_patterns[di])
    /\ UNCHANGED <<sorted_targets, ei, pi, dest_path, copy_sources,
                   drop_patterns, ci, source>>
    /\ UNCHANGED <<cfg_vars, path_vars, macro_vars, ext_vars>>

\* the entry is done; the loop goes on with the next one
NextEntry ==
    /\ pc = "Drop"
    /\ di > Len(drop_patterns)
    /\ ei' = ei + 1
    /\ pc' = "Entry"
    /\ UNCHANGED <<fs, err, err_pattern, sorted_targets, pi, dest_path,
                   copy_sources, drop_patterns, ci, di, source, log>>
    /\ UNCHANGED <<cfg_vars, path_vars, macro_vars, ext_vars>>

\* line 379: all entries are done
EndStructure ==
    /\ pc = "Entry"
    /\ ei > Len(sorted_targets)
    /\ pc' = "Done"
    /\ UNCHANGED <<fs, err, err_pattern, sorted_targets, ei, pi, dest_path,
                   copy_sources, drop_patterns, ci, di, source, log>>
    /\ UNCHANGED <<cfg_vars, path_vars, macro_vars, ext_vars>>

\* ------------------------------------------------------------------------
\* Version steps: __Step_ExtractVersion and __Step_UpdateVersionInSources
\* ------------------------------------------------------------------------

\* the text a line has to start with to match the expression of line 396
VersionPrefix ==
    "[assembly: AssemblyVersion"

NoVersion ==
    [ok |-> FALSE, major |-> "", minor |-> "", patch |-> "", build |-> ""]

\* the end of a patch or build number starting at position i: '*' or a run
\* of digits; i - 1 if there is neither
StarOrDigits(s, i) ==
    IF Ch(s, i) = "*" THEN i ELSE DigitRun(s, i)

\* the rest of the expression of line 396 matched at position k of the line:
\* ("(\d+)\.(\d+)\.(\*|\d+)(.(\*|\d+))?")] ; group 5 is "0" when absent
VersionAt(s, k) ==
    LET Closes(i) ==
            SubSeq(s \o "   ", i, i + 2) = "\")]"
        Groups(ae, be, ce, de) ==
            IF ce < be + 2 THEN NoVersion
            ELSE IF Ch(s, ce + 1) # "" /\ de >= ce + 2 /\ Closes(de + 1)
                THEN [ok |-> TRUE, major |-> SubSeq(s, k + 2, ae),
                      minor |-> SubSeq(s, ae + 2, be),
                      patch |-> SubSeq(s, be + 2, ce),
                      build |-> SubSeq(s, ce + 2, de)]
            ELSE IF Closes(ce + 1)
                THEN [ok |-> TRUE, major |-> SubSeq(s, k + 2, ae),
                      minor |-> SubSeq(s, ae + 2, be),
                      patch |-> SubSeq(s, be + 2, ce),
                      build |-> "0"]
            ELSE NoVersion
        Patch(ae, be, ce) ==
            Groups(ae, be, ce, StarOrDigits(s, ce + 2))
        Minor(ae, be) ==
            IF be < ae + 2 \/ Ch(s, be + 1) # "." THEN NoVersion
            ELSE Patch(ae, be, StarOrDigits(s, be + 2))
        Major(ae) ==
            IF ae < k + 2 \/ Ch(s, ae + 1) # "." THEN NoVersion
            ELSE Minor(ae, DigitRun(s, ae + 2))
    IN  IF SubSeq(s \o "  ", k, k + 1) # "(\"" THEN NoVersion
        ELSE Major(DigitRun(s, k + 2))

\* re.match of line 395-396 on a line: the greedy .* takes the last position
\* at which the rest matches
MatchVersion(line) ==
    LET Last(K) ==
            IF K = {} THEN NoVersion
            ELSE VersionAt(line, CHOOSE k \in K : \A j \in K : j <= k)
    IN  IF ~StartsWith(line, VersionPrefix) THEN NoVersion
        ELSE Last({k \in (Len(VersionPrefix) + 1)..Len(line) :
                      VersionAt(line, k).ok})

\* line.lstrip() of blanks
RECURSIVE LStrip(_)
LStrip(s) ==
    IF StartsWith(s, " ") THEN LStrip(From(s, 2)) ELSE s

\* what __GetFileInfo may return for the binary: "" is None
FileInfos ==
    {"", "1.2.7.9"}

\* __MakeVersion(major, minor, patch, build) with the file version info of
\* the binary: [err, tuple]
MakeVersion(m, info) ==
    LET Ints(major, minor, patch, build) ==
            IF major.ok /\ minor.ok /\ patch.ok /\ build.ok
            THEN [err |-> "", tuple |-> <<major.value, minor.value,
                                          patch.value, build.value>>]
            ELSE [err |-> "ValueError", tuple |-> <<>>]
        Fallback(patch, build) ==
            Ints(int(m.major), int(m.minor),
                 int(IF patch = "*" THEN "0" ELSE patch),
                 int(IF build = "*" THEN "0" ELSE build))
        FromBinary(filename, parts) ==
            IF filename.err # "" THEN [err |-> filename.err, tuple |-> <<>>]
            ELSE Fallback(IF m.patch = "*" /\ Len(parts) >= 3
                              THEN parts[3] ELSE m.patch,
                          IF Len(parts) >= 4 THEN parts[4] ELSE m.build)
    IN  IF m.build = "*" \/ m.patch = "*"
        THEN FromBinary(MakeSrcPath(attrs["COMPILED_BINARY"], FALSE),
                        StrSplit(info, "."))
        ELSE Fallback(m.patch, m.build)

\* lines 391-401: the first line that is no comment and matches gives the
\* version: [err, tuple]; the tuple stays <<>> when no line matches
RECURSIVE FindVersion(_, _)
FindVersion(lines, info) ==
    LET Line(m) ==
            IF m.ok THEN MakeVersion(m, info)
            ELSE FindVersion(Tail(lines), info)
    IN  IF Len(lines) = 0 THEN [err |-> "", tuple |-> <<>>]
        ELSE IF StartsWith(LStrip(Head(lines)), "//")
            THEN FindVersion(Tail(lines), info)
        ELSE Line(MatchVersion(Head(lines)))

\* __Step_ExtractVersion
ExtractVersion ==
    /\ pc = "ExtractVersion"
    /\ LET Set(version) ==
               IF version.err # ""
                   THEN Die(version.err, "") /\ UNCHANGED VERSION
               ELSE IF version.tuple = <<>>
                   THEN Die("VersionNotFoundError", "") /\ UNCHANGED VERSION
               ELSE /\ VERSION' = version.tuple
                    /\ pc' = "UpdateVersionInSources"
                    /\ UNCHANGED <<err, err_pattern>>
           Read(file_path) ==
               IF file_path.err # ""
                   THEN Die(file_path.err, "") /\ UNCHANGED VERSION
               ELSE IF VERSION # <<>>
                   THEN /\ pc' = "UpdateVersionInSources"
                        /\ UNCHANGED <<err, err_pattern, VERSION>>
               ELSE IF ~isfile(fs, file_path.path)
                   THEN Die("IOError", "") /\ UNCHANGED VERSION
               ELSE \E info \in FileInfos :
                        Set(FindVersion(StrSplit(fs[file_path.path], "\n"), info))
       IN  Read(MakeSrcPath(attrs["ASSEMBLY_INFO_FILE"], FALSE))
    /\ UNCHANGED <<fs, sorted_targets, ei, pi, dest_path, copy_sources,
                   drop_patterns, ci, di, source, log>>
    /\ UNCHANGED <<cfg_vars, path_vars, macro_vars, legacy_vars, rerun_vars, net_vars>>
    /\ UNCHANGED <<opts, content, code>>

\* json.dump(content, fp, indent=4, sort_keys=True) of a file holding the
\* VERSION object only
DumpVersion(v) ==
    "{\n    \"VERSION\": {\n        \"BUILD\": " \o str(v[4])
    \o ", \n        \"MAJOR\": " \o str(v[1])
    \o ", \n        \"MINOR\": " \o str(v[2])
    \o ", \n        \"PATCH\": " \o str(v[3])
    \o "\n    }\n}"

\* json.load accepts the text: an object (the model's version files hold
\* '{}' or an object with the key VERSION only)
IsJsonObject(text) ==
    StartsWith(text, "{") /\ EndsWith(text, "}")

\* 'VERSION' in content
HasVersionKey(text) ==
    Contains(text, "\"VERSION\":")

\* __Step_UpdateVersionInSources
UpdateVersionInSources ==
    /\ pc = "UpdateVersionInSources"
    /\ LET Write(version_file) ==
               IF version_file.err # ""
                   THEN Die(version_file.err, "") /\ UNCHANGED fs
               ELSE IF ~isfile(fs, version_file.path)
                   THEN Die("IOError", "") /\ UNCHANGED fs
               ELSE IF ~IsJsonObject(fs[version_file.path])
                   THEN Die("ValueError", "") /\ UNCHANGED fs
               ELSE IF ~HasVersionKey(fs[version_file.path])
                   THEN Die("VersionKeyError", "") /\ UNCHANGED fs
               ELSE /\ fs' = [fs EXCEPT ![version_file.path] = DumpVersion(VERSION)]
                    /\ pc' = "MakeFoldersStructure"
                    /\ UNCHANGED <<err, err_pattern>>
       IN  IF attrs["MINIAVC_VERSION_FILE"] = ""
               THEN /\ pc' = "MakeFoldersStructure"
                    /\ UNCHANGED <<fs, err, err_pattern>>
           ELSE Write(MakeSrcPath(attrs["MINIAVC_VERSION_FILE"], FALSE))
    /\ UNCHANGED <<sorted_targets, ei, pi, dest_path, copy_sources,
                   drop_patterns, ci, di, source, log>>
    /\ UNCHANGED <<cfg_vars, path_vars, macro_vars, legacy_vars, rerun_vars, net_vars, release_vars>>

\* ------------------------------------------------------------------------
\* Macro resolver, step by step: one call of __ParseMacros
\* ------------------------------------------------------------------------

\* the deepest nesting of parse_macros calls the model follows
MaxDepth == 6

\* the lambda of parse_macros: the next match of the frame on top is found,
\* the text before it is emitted and get_macro_value is called; its value is
\* parsed in a new frame
MacroExpand ==
    /\ m_err = ""
    /\ Len(m_stack) > 0
    /\ Len(m_stack) < MaxDepth
    /\ LET Call(b, g) ==
               /\ m_parents' = g.parents
               /\ m_err' = g.err
               /\ m_stack' = IF g.err # "" THEN m_stack
                             ELSE Append([m_stack EXCEPT ![Len(m_stack)].pos = b + 1],
                                         [s |-> g.value, pos |-> 1])
           Match(top, a, b) ==
               /\ a # 0
               /\ m_out' = m_out \o SubSeq(top.s, top.pos, a - 1)
               /\ Call(b, get_macro_value(SubSeq(top.s, a + 1, b - 1), m_parents))
           At(top, a) ==
               Match(top, a, MacroEnd(top.s, a))
           Frame(top) ==
               At(top, FindMacro(top.s, top.pos))
       IN  Frame(m_stack[Len(m_stack)])
    /\ UNCHANGED m_tpl
    /\ UNCHANGED <<cfg_vars, run_vars, path_vars, ext_vars>>

\* re.sub finds no further match in the frame on top: the rest of its text
\* is emitted and the call returns
MacroReturn ==
    /\ m_err = ""
    /\ Len(m_stack) > 0
    /\ LET top == m_stack[Len(m_stack)]
       IN  /\ FindMacro(top.s, top.pos) = 0
           /\ m_out' = m_out \o From(top.s, top.pos)
           /\ m_stack' = SubSeq(m_stack, 1, Len(m_stack) - 1)
    /\ UNCHANGED <<m_tpl, m_parents, m_err>>
    /\ UNCHANGED <<cfg_vars, run_vars, path_vars, ext_vars>>

\* ------------------------------------------------------------------------
\* Path resolver, call by call
\* ------------------------------------------------------------------------

\* one call of __MakeSrcPath
ResolveSourcePath ==
    /\ q.fn = "src"
    /\ ~r.done
    /\ LET Return(res) == r' = [done |-> TRUE, err |-> res.err, path |-> res.path]
       IN  Return(MakeSrcPath(q.pattern, q.allow_unresolved))
    /\ UNCHANGED q
    /\ UNCHANGED <<cfg_vars, run_vars, macro_vars, ext_vars>>

\* one call of __MakeDestPath
ResolveDestPath ==
    /\ q.fn = "dest"
    /\ ~r.done
    /\ LET Return(res) == r' = [done |-> TRUE, err |-> res.err, path |-> res.path]
       IN  Return(MakeDestPath(q.pattern, q.allow_unresolved))
    /\ UNCHANGED q
    /\ UNCHANGED <<cfg_vars, run_vars, macro_vars, ext_vars>>

\* ------------------------------------------------------------------------
\* Configurations and initial states
\* ------------------------------------------------------------------------

\* the attributes every builder has (class attributes); PACKAGE_NAME is set
\* by the settings, ARCHIVE_DEST keeps its default ''
BaseAttrs(package_name) ==
    [n \in {"PROJECT_ROOT", "SOURCE", "RELEASE", "PACKAGE_NAME",
            "RELEASE_MOD_FOLDER", "ARCHIVE_DEST", "ASSEMBLY_INFO_FILE",
            "MINIAVC_VERSION_FILE", "COMPILED_BINARY"} |->
        CASE n = "PROJECT_ROOT" -> "."
          [] n = "ASSEMBLY_INFO_FILE" -> "/V"
          [] n = "MINIAVC_VERSION_FILE" -> ""
          [] n = "COMPILED_BINARY" -> "{PACKAGE_NAME}.dll"
          [] n = "SOURCE" -> "S"
          [] n = "RELEASE" -> "R"
          [] n = "PACKAGE_NAME" -> package_name
          [] n = "RELEASE_MOD_FOLDER" -> "{PACKAGE_NAME}"
          [] n = "ARCHIVE_DEST" -> ""]

\* attributes set on the builder besides the settings
ExtraAttrs ==
    [n \in {"A", "Yb", "Xc", "Zb", "Xe", "Up", "Q", "D"} |->
        CASE n = "A" -> "b"
          [] n = "Yb" -> "c"
          [] n = "Xc" -> "../../../o"
          [] n = "Zb" -> "e"
          [] n = "Xe" -> "q"
          [] n = "Up" -> ".."
          [] n = "Q" -> "?"
          [] n = "D" -> "-a"]

\* the macro contexts of the assembler and the path resolver
Contexts ==
    {With(BaseAttrs("M"), ExtraAttrs), With(BaseAttrs(""), ExtraAttrs)}

\* the project: a source folder with a file and a folder, a file at the root
SourceTree ==
    [x \in {"/", "/w", "/w/S", "/w/S/a", "/w/S/d", "/w/S/d/f", "/w/L"} |->
        IF x \in {"/w/S/a", "/w/S/d/f", "/w/L"} THEN x ELSE "dir"]

\* what an earlier run left in the release folder
OldRelease ==
    [x \in {"/w/R", "/w/R/GameData", "/w/R/GameData/M", "/w/R/GameData/M/K",
            "/w/R/GameData/M/K/old"} |->
        IF x = "/w/R/GameData/M/K/old" THEN "old" ELSE "dir"]

Entry(key, pats) ==
    [key |-> key, pats |-> pats]

\* the mapping entries a STRUCTURE of the model is made of
Entries ==
    {Entry("", <<"a">>),
     Entry("/", <<"/L">>),
     Entry("/s", <<"d">>),
     Entry(".h", <<"a">>),
     Entry("K", <<"*", "-a">>),
     Entry("K", <<"a", "-">>),
     Entry("K", <<"d", "-.">>),
     Entry("K", <<"d", "-d/f">>),
     Entry("K", <<"a", "-../x">>),
     Entry("K", <<"a", "-/L">>),
     Entry("K", <<"?{ARCHIVE_DEST}/a", "a">>),
     Entry("K", <<"?{NOPE}/a", "a">>),
     Entry("K", <<"{Q}">>),
     Entry("K", <<"{D}">>),
     Entry("K", <<"a", "?-a">>),
     Entry("K", <<"a", "-?">>),
     Entry("K/u", <<"a">>),
     Entry("E", <<"?n/*">>),
     Entry("E", <<"n/*">>),
     Entry("E", <<>>),
     Entry("{X{Y{A}}}", <<"a">>),
     Entry("{X{Z{A}}}", <<"a">>),
     Entry("../../x", <<"a">>)}

\* the largest number of entries of a STRUCTURE
MaxEntries == 2

\* the mappings: up to MaxEntries entries with different keys, in the order
\* the dict happens to iterate them
Structures ==
    {st \in UNION {[1..n -> Entries] : n \in 0..MaxEntries} :
        \A i, j \in DOMAIN st : st[i].key = st[j].key => i = j}

IdleRun ==
    /\ STRUCTURE = <<>>
    /\ fs = SourceTree
    /\ pc = "Idle"
    /\ err = ""
    /\ err_pattern = ""
    /\ sorted_targets = <<>>
    /\ ei = 0
    /\ pi = 0
    /\ dest_path = ""
    /\ copy_sources = [isNone |-> TRUE, items |-> <<>>]
    /\ drop_patterns = <<>>
    /\ ci = 0
    /\ di = 0
    /\ source = Unbound
    /\ log = {}

\* f restricted to the paths at or beneath the folder d
Subtree(f, d) ==
    [x \in {y \in DOMAIN f : Under(y, d)} |-> f[x]]

\* no folder at all
NoTree ==
    [x \in {} |-> "dir"]

\* the file the version is read from, holding one line
AssemblyInfo(text) ==
    [x \in {"/w/V"} |-> text]

\* AssemblyInfo with the version 1.2.3
Version123 ==
    AssemblyInfo("[assembly: AssemblyVersion(\"1.2.3\")]")

\* the script was started with a settings file and without -p and -o, the
\* settings are loaded and the compile script went through; the version is
\* not known yet
IdleRelease ==
    /\ opts = [mode |-> "j", p |-> FALSE, o |-> FALSE]
    /\ content = [found |-> TRUE, schema |-> "1.1", values |-> NoTree,
                  structure |-> <<>>]
    /\ code = 0
    /\ VERSION = <<>>

\* the first run of the builder on the project
\* no list of game versions has been cached
NoVersions ==
    [isNone |-> TRUE, items |-> <<>>]

\* no client call has been made
NoOutcome ==
    [err |-> "", value |-> <<>>]

\* no publish script runs
NoJob ==
    [versions |-> "", archive |-> "", title |-> "", changelog |-> "",
     login |-> "", pass |-> "", token |-> "", answer |-> "", files |-> <<>>]

\* the client modules as imported and no publish script running
IdleNet ==
    /\ site = ""
    /\ API_TOKEN = ""
    /\ API_LOGIN = ""
    /\ API_PASS = ""
    /\ cached_versions = NoVersions
    /\ authorized_cookie = ""
    /\ requests = <<>>
    /\ calls = 0
    /\ outcome = NoOutcome
    /\ stage = "idle"
    /\ choice = ""
    /\ job = NoJob

\* make_release-1.0.py is not running
IdleLegacy ==
    /\ folders = <<>>
    /\ fi = 0

FirstRun ==
    /\ runs = 1
    /\ first_release = NoTree
    /\ IdleRelease
    /\ IdleNet
    /\ IdleLegacy

IdlePath ==
    /\ q = [fn |-> "none", pattern |-> "", allow_unresolved |-> FALSE]
    /\ r = [done |-> FALSE, err |-> "", path |-> ""]

IdleMacro ==
    /\ m_tpl = ""
    /\ m_stack = <<>>
    /\ m_parents = <<>>
    /\ m_out = ""
    /\ m_err = ""

\* MakeRelease starts: the settings are loaded, the release folder is about
\* to be wiped
Init ==
    /\ attrs \in Contexts
    /\ STRUCTURE \in Structures
    /\ fs \in {With(SourceTree, Version123),
                With(With(SourceTree, OldRelease), Version123)}
    /\ pc = "CleanupReleaseFolder"
    /\ err = ""
    /\ err_pattern = ""
    /\ sorted_targets = <<>>
    /\ ei = 0
    /\ pi = 0
    /\ dest_path = ""
    /\ copy_sources = [isNone |-> TRUE, items |-> <<>>]
    /\ drop_patterns = <<>>
    /\ ci = 0
    /\ di = 0
    /\ source = Unbound
    /\ log = {}
    /\ IdlePath
    /\ IdleMacro
    /\ FirstRun

Next ==
    \/ CleanupReleaseFolder
    \/ ExtractVersion
    \/ UpdateVersionInSources
    \/ SortTargets
    \/ ResolveDest
    \/ ScanPattern
    \/ EndPatterns
    \/ CopySource
    \/ EndCopy
    \/ DropPattern
    \/ NextEntry
    \/ EndStructure

Spec == Init /\ [][Next]_vars

\* the patterns the path resolver is asked to resolve
Patterns ==
    {"", "a", "/L", "/", ".", "..", "../x", "../../x", "/../x", "d/../a",
     "..c", "/..c", "*", "n/*", "K", "K/a", "K/../K", "/M/K/a",
     "{ARCHIVE_DEST}", "{ARCHIVE_DEST}/a", "{ARCHIVE_DEST}/../a",
     "{ARCHIVE_DEST}/../../../x", "/{ARCHIVE_DEST}/../../x",
     "{NOPE}/a", "{__X}", "{SOURCE}/../{SOURCE}/a", "{PACKAGE_NAME}",
     "{PACKAGE_NAME}/../..", "{RELEASE_MOD_FOLDER}/..",
     "{RELEASE_MOD_FOLDER}/../..", "{X{Y{A}}}", "{Up}", "{Up}/..", "/{Up}",
     "{Up}/{Xc}", "x{A}y"}

\* the macro contexts of the path resolver calls: those of the assembler, and
\* one with the project in a subfolder and the release folder beside it
PathContexts ==
    Contexts \cup
    {With(With(BaseAttrs("M"), ExtraAttrs),
          [n \in {"PROJECT_ROOT", "RELEASE"} |->
              IF n = "PROJECT_ROOT" THEN "p/." ELSE "../R2"])}

InitPath ==
    /\ attrs \in PathContexts
    /\ IdleRun
    /\ q \in [fn : {"src", "dest"}, pattern : Patterns,
              allow_unresolved : BOOLEAN]
    /\ r = [done |-> FALSE, err |-> "", path |-> ""]
    /\ IdleMacro
    /\ FirstRun

NextPath ==
    \/ ResolveSourcePath
    \/ ResolveDestPath

SpecPath == InitPath /\ [][NextPath]_vars

\* the values a macro of the resolver runs may have ("" is None)
MacroValues ==
    {"", "x", "{A}", "{B}", "{C}", "{B}{C}"}

\* the macro contexts of the resolver runs: the assignments of the values to
\* the attributes A, B and C in which C is plain or refers to A
MacroContexts ==
    {c \in [{"A", "B", "C"} -> MacroValues] : c["C"] \in {"x", "{A}"}}

\* the templates the resolver runs are given
Templates ==
    {"{A}", "{B}", "{C}/x", "{A}/{A}.dll", "{A}{B}{C}", "{N}", "{__A}",
     "{X{A}}", "plain"}

InitMacro ==
    /\ attrs \in MacroContexts
    /\ IdleRun
    /\ IdlePath
    /\ m_tpl \in Templates
    /\ m_stack = <<[s |-> m_tpl, pos |-> 1]>>
    /\ m_parents = <<>>
    /\ m_out = ""
    /\ m_err = ""
    /\ FirstRun

NextMacro ==
    \/ MacroExpand
    \/ MacroReturn

\* the resolver runs to completion: Python executes the call step by step
\* and nothing else runs
SpecMacro == InitMacro /\ [][NextMacro]_vars /\ WF_vars(NextMacro)

\* ------------------------------------------------------------------------
\* The script: main, LoadSettingsFromJson and the steps of MakeRelease
\* around the assembler
\* ------------------------------------------------------------------------

SUPPORTED_JSON_SCHEMA_VERSION == "1.1"

\* content.get('JSON_SCHEMA_VERSION') of a file without the key
Absent == "<absent>"

\* a check of the major part only
CheckSchemaMajor(schema_version) ==
    LET Parts(parts, supported) ==
            IF Len(parts) # 2 \/ ~int(parts[1]).ok \/ ~int(parts[2]).ok
                THEN "ValueError"
            ELSE IF int(parts[1]).value # int(supported[1]).value
                THEN "UnsupportedSchemaError"
            ELSE ""
    IN  IF schema_version = Absent \/ schema_version = ""
            THEN "SchemaUndefinedError"
        ELSE Parts(StrSplit(schema_version, "."),
                   StrSplit(SUPPORTED_JSON_SCHEMA_VERSION, "."))

\* __CheckSchemaVersion(schema_version): "" or the error
CheckSchemaVersion(schema_version) ==
    LET Compare(major, minor, supported_major, supported_minor) ==
            IF ~(major.ok /\ minor.ok) THEN "ValueError"
            ELSE IF major.value # supported_major.value
                    \/ minor.value > supported_minor.value
                THEN "UnsupportedSchemaError"
            ELSE ""
        Parts(parts, supported) ==
            IF Len(parts) # 2 THEN "ValueError"
            ELSE Compare(int(parts[1]), int(parts[2]),
                         int(supported[1]), int(supported[2]))
    IN  IF schema_version = Absent \/ schema_version = ""
            THEN "SchemaUndefinedError"
        ELSE Parts(StrSplit(schema_version, "."),
                   StrSplit(SUPPORTED_JSON_SCHEMA_VERSION, "."))

\* Builder.__JSON_VALUES without STRUCTURE, which the model keeps apart
JSON_VALUES ==
    {"ARCHIVE_DEST", "ASSEMBLY_INFO_FILE", "COMPILED_BINARY",
     "MINIAVC_VERSION_FILE", "PACKAGE_NAME", "PROJECT_ROOT", "RELEASE",
     "RELEASE_MOD_FOLDER", "RELEASE_NAME_FMT", "RELEASE_NAME_WITH_BUILD_FMT",
     "RELEASE_NAME_FREE_FORMAT", "SHELL_COMPILE_BINARY_SCRIPT", "SOURCE"}

\* the settings of the keys in the set keys
Settings(keys) ==
    [k \in keys |-> content.values[k]]

\* LoadSettingsFromJson, called by main for -j and -J: the file is read, the
\* schema version is checked, then the keys are applied in the order the
\* dict iterates them until a key is unknown
LoadSettingsFromJson ==
    /\ pc = "main"
    /\ opts.mode = "j"
    /\ LET Apply(known, unknown) ==
               IF unknown # {}
                   THEN /\ Die("UnknownKeyError", "")
                        /\ \E applied \in SUBSET known :
                               attrs' = With(attrs, Settings(applied))
                        /\ STRUCTURE' \in {STRUCTURE, content.structure}
               ELSE /\ attrs' = With(attrs, Settings(known))
                    /\ STRUCTURE' = content.structure
                    /\ pc' = "MakeRelease"
                    /\ UNCHANGED <<err, err_pattern>>
           Check(schema_error) ==
               IF schema_error # ""
                   THEN Die(schema_error, "") /\ UNCHANGED <<attrs, STRUCTURE>>
               ELSE Apply(DOMAIN content.values \cap JSON_VALUES,
                          DOMAIN content.values \ JSON_VALUES)
       IN  IF ~content.found
               THEN Die("IOError", "") /\ UNCHANGED <<attrs, STRUCTURE>>
           ELSE Check(CheckSchemaVersion(content.schema))
    /\ UNCHANGED <<fs, sorted_targets, ei, pi, dest_path, copy_sources,
                   drop_patterns, ci, di, source, log>>
    /\ UNCHANGED <<path_vars, macro_vars, legacy_vars, rerun_vars, net_vars, release_vars>>

\* SetupBuildVariables, called by main for -c
SetupBuildVariables ==
    /\ pc = "main"
    /\ opts.mode = "c"
    /\ Die("NotImplementedError", "")
    /\ UNCHANGED <<fs, sorted_targets, ei, pi, dest_path, copy_sources,
                   drop_patterns, ci, di, source, log>>
    /\ UNCHANGED <<cfg_vars, path_vars, macro_vars, legacy_vars, rerun_vars, net_vars, release_vars>>

\* the nesting level at which the search for the repository gives up
RepositorySearchDepth == 50

\* the loop of lines 275-280: the folder holding .git, from path upwards;
\* "" when the root is reached or after i levels
RECURSIVE FindRepository(_, _, _)
FindRepository(f, repository_path, i) ==
    LET Up(parent) ==
            IF relpath(parent, "/") = "." \/ i - 1 = 0 THEN ""
            ELSE FindRepository(f, parent, i - 1)
    IN  IF exists(f, join(repository_path, ".git")) THEN repository_path
        ELSE Up(abspath(join(repository_path, "..")))

\* __ResolveProjectRoot: for '#github' the repository is searched and
\* PROJECT_ROOT becomes its path relative to the script's folder
ResolveProjectRoot ==
    /\ pc = "MakeRelease"
    /\ LET Found(repository_path) ==
               IF repository_path = ""
                   THEN Die("RepositoryNotFoundError", "") /\ UNCHANGED attrs
               ELSE /\ attrs' = [attrs EXCEPT !["PROJECT_ROOT"] =
                                     relpath(repository_path, ABS_SCRIPT_ROOT)]
                    /\ pc' = "CompileBinary"
                    /\ UNCHANGED <<err, err_pattern>>
       IN  IF attrs["PROJECT_ROOT"] = "#github"
               THEN Found(FindRepository(fs, ABS_SCRIPT_ROOT,
                                         RepositorySearchDepth))
           ELSE /\ pc' = "CompileBinary"
                /\ UNCHANGED <<attrs, err, err_pattern>>
    /\ UNCHANGED <<STRUCTURE, fs, sorted_targets, ei, pi, dest_path,
                   copy_sources, drop_patterns, ci, di, source, log>>
    /\ UNCHANGED <<path_vars, macro_vars, legacy_vars, rerun_vars, net_vars, release_vars>>

\* the exit codes the compile script may return
CompileCodes ==
    {0, 1, 2}

\* __Step_CompileBinary: the script is an external command; it returns a
\* code and has or has not written the binary
CompileBinary ==
    /\ pc = "CompileBinary"
    /\ LET Result(binary_path, c, f) ==
               /\ code' = c
               /\ fs' = f
               /\ IF c # 0 \/ ~exists(f, binary_path)
                      THEN Die("CompilationError", "")
                  ELSE pc' = "CleanupReleaseFolder" /\ UNCHANGED <<err, err_pattern>>
           Call(binary_path) ==
               IF binary_path.err # ""
                   THEN Die(binary_path.err, "") /\ UNCHANGED <<fs, code>>
               ELSE IF attrs["SHELL_COMPILE_BINARY_SCRIPT"] = ""
                   THEN Die("AttributeError", "") /\ UNCHANGED <<fs, code>>
               ELSE IF ~isfile(fs, join(ABS_SCRIPT_ROOT,
                                        attrs["SHELL_COMPILE_BINARY_SCRIPT"]))
                   THEN Die("OSError", "") /\ UNCHANGED <<fs, code>>
               ELSE \E c \in CompileCodes, built \in BOOLEAN :
                        Result(binary_path.path, c,
                               IF built /\ isdir(fs, dirname(binary_path.path))
                                        /\ ~isdir(fs, binary_path.path)
                               THEN With(fs, [x \in {binary_path.path} |-> "dll"])
                               ELSE fs)
       IN  Call(MakeSrcPath(attrs["COMPILED_BINARY"], FALSE))
    /\ UNCHANGED <<sorted_targets, ei, pi, dest_path, copy_sources,
                   drop_patterns, ci, di, source, log>>
    /\ UNCHANGED <<cfg_vars, path_vars, macro_vars, legacy_vars, rerun_vars, net_vars>>
    /\ UNCHANGED <<opts, content, VERSION>>

\* fmt % args for a format of %d conversions: [err, out]
RECURSIVE PercentD(_, _)
PercentD(fmt, args) ==
    LET Rest(i, rest) ==
            IF rest.err # "" THEN rest
            ELSE [err |-> "", out |-> Upto(fmt, i - 1) \o str(Head(args)) \o rest.out]
        At(i) ==
            IF i = 0
                THEN [err |-> IF Len(args) = 0 THEN "" ELSE "TypeError",
                      out |-> fmt]
            ELSE IF Ch(fmt, i + 1) # "d" THEN [err |-> "ValueError", out |-> ""]
            ELSE IF Len(args) = 0 THEN [err |-> "TypeError", out |-> ""]
            ELSE Rest(i, PercentD(From(fmt, i + 2), Tail(args)))
    IN  At(FindCh(fmt, "%", 1))

\* text.format(*args) for a text with the fields {0} .. {3}: [err, out]
RECURSIVE Format(_, _)
Format(text, args) ==
    LET Rest(i, j, rest) ==
            IF rest.err # "" THEN rest
            ELSE [err |-> "",
                  out |-> Upto(text, i - 1)
                          \o str(args[DigitVal(SubSeq(text, i + 1, j - 1)) + 1])
                          \o rest.out]
        Field(i, j) ==
            IF j = i + 2 /\ Ch(text, i + 1) \in {"0", "1", "2", "3"}
                THEN Rest(i, j, Format(From(text, j + 1), args))
            ELSE [err |-> "KeyError", out |-> ""]
        At(i) ==
            IF i = 0
                THEN [err |-> IF FindCh(text, "}", 1) = 0 THEN "" ELSE "ValueError",
                      out |-> text]
            ELSE IF FindCh(Upto(text, i), "}", 1) # 0
                THEN [err |-> "ValueError", out |-> ""]
            ELSE Field(i, FindCh(text, "}", i))
    IN  At(FindCh(text, "{", 1))

\* the release name of lines 433-438: [err, out]
ReleaseName ==
    LET Parsed(formatted) ==
            IF formatted.err # "" THEN formatted
            ELSE ParseMacros(formatted.out)
        Free(parsed) ==
            IF parsed.err # "" THEN parsed ELSE Format(parsed.out, VERSION)
        Short ==
            Parsed(PercentD(attrs["RELEASE_NAME_FMT"], SubSeq(VERSION, 1, 3)))
        WithBuild(name) ==
            IF name.err # "" THEN name
            ELSE IF name.out # "" THEN name
            ELSE Short
    IN  IF attrs["RELEASE_NAME_FREE_FORMAT"] # ""
            THEN Free(ParseMacros(attrs["RELEASE_NAME_FREE_FORMAT"]))
        ELSE IF VERSION[4] # 0
            THEN WithBuild(Parsed(PercentD(attrs["RELEASE_NAME_WITH_BUILD_FMT"],
                                           VERSION)))
        ELSE Short

\* the elements of a finite set of strings as a list in byte order
RECURSIVE Sorted(_)
Sorted(S) ==
    IF S = {} THEN <<>>
    ELSE LET First(x) == <<x>> \o Sorted(S \ {x})
         IN  First(CHOOSE x \in S : \A y \in S : cmp(x, y) # "gt")

\* the content of the archive shutil.make_archive writes for the folder
\* base_dir of root_dir: the paths beneath it with their content
Archive(f, root_dir, base_dir) ==
    LET Member(x) == From(x, Len(root_dir) + 2) \o "=" \o f[x]
        List(members) == "zip:" \o StrJoin([k \in DOMAIN members |-> Member(members[k])], ";")
    IN  List(Sorted({x \in DOMAIN f : Under(x, join(root_dir, base_dir))}))

\* shutil.make_archive(base_name, 'zip', root_dir, 'GameData'): the folder of
\* the archive is made if missing, root_dir is entered, the archive is
\* written; on a root_dir without GameData the call fails or writes an empty
\* archive, depending on the version of the library
make_archive(f, base_name, root_dir) ==
    LET Written(g, e) ==
            FsResult(With(g, [x \in {base_name \o ".zip"} |->
                                 Archive(g, root_dir, "GameData")]), e, {})
        In(made) ==
            IF made.err # "" THEN {made}
            ELSE IF ~isdir(made.fs, root_dir) THEN {FsResult(made.fs, "OSError", {})}
            ELSE IF isdir(made.fs, base_name \o ".zip")
                THEN {FsResult(made.fs, "IOError", {})}
            ELSE IF ~exists(made.fs, join(root_dir, "GameData"))
                THEN {Written(made.fs, ""), Written(made.fs, "OSError")}
            ELSE {Written(made.fs, "")}
    IN  In(IF exists(f, dirname(base_name)) THEN FsResult(f, "", {})
           ELSE makedirs(f, dirname(base_name)))

\* os.remove(path)
remove(f, path) ==
    IF isdir(f, path) THEN FsResult(f, "OSError", {})
    ELSE FsResult(Without(f, {path}), "", {})

\* __Step_MakePackage(overwrite_existing): the outcomes as file system
\* results
MakePackageResults(overwrite_existing) ==
    LET Packed(removed, package_file_name, release) ==
            IF removed.err # "" THEN {removed}
            ELSE IF release.err # "" THEN {FsResult(removed.fs, release.err, {})}
            ELSE make_archive(removed.fs, package_file_name,
                              normpath(release.path))
        Named(package_file_name) ==
            IF package_file_name.err # ""
                THEN {FsResult(fs, package_file_name.err, {})}
            ELSE IF exists(fs, package_file_name.path \o ".zip")
                THEN IF ~overwrite_existing
                         THEN {FsResult(fs, "PackageExistsError", {})}
                     ELSE Packed(remove(fs, package_file_name.path \o ".zip"),
                                 package_file_name.path, GetAbsReleaseFolder)
            ELSE Packed(FsResult(fs, "", {}), package_file_name.path,
                        GetAbsReleaseFolder)
        Name(release_name) ==
            IF release_name.err # "" THEN {FsResult(fs, release_name.err, {})}
            ELSE Named(MakeSrcPath(join(join("/", attrs["ARCHIVE_DEST"]),
                                        release_name.out), FALSE))
    IN  Name(ReleaseName)

\* lines 156-160 of MakeRelease and the end of main: the package is made
\* if -p was given, then main calls exit(-2)
MakePackage ==
    /\ pc = "Done"
    /\ IF opts.p
           THEN \E res \in MakePackageResults(opts.o) :
                    /\ fs' = res.fs
                    /\ IF res.err # "" THEN Die(res.err, "")
                       ELSE pc' = "Finished" /\ UNCHANGED <<err, err_pattern>>
       ELSE /\ pc' = "Finished"
            /\ UNCHANGED <<fs, err, err_pattern>>
    /\ UNCHANGED <<sorted_targets, ei, pi, dest_path, copy_sources,
                   drop_patterns, ci, di, source, log>>
    /\ UNCHANGED <<cfg_vars, path_vars, macro_vars, legacy_vars, rerun_vars, net_vars, release_vars>>

\* the errors that are exceptions nobody catches; the others are calls of
\* exit
Exceptions ==
    {"RuntimeError", "UnboundLocalError", "OSError", "IOError", "IndexError",
     "ValueError", "NotImplementedError", "AttributeError", "TypeError",
     "KeyError"}

\* the process has ended
Terminated ==
    pc \in {"Exit", "Finished"}

\* the exit status of the ended process: 1 after an exception, the code of
\* the compile script after exit(code), -1 after the other errors, -2 at the
\* end of main, as a byte
ExitStatus ==
    IF pc = "Finished" THEN (0 - 2) % 256
    ELSE IF err \in Exceptions THEN 1
    ELSE IF err = "CompilationError" THEN code % 256
    ELSE (0 - 1) % 256

\* the class attributes of Builder the settings may override ("" is None)
ClassAttrs ==
    [n \in JSON_VALUES |->
        CASE n = "PROJECT_ROOT" -> "#github"
          [] n = "SOURCE" -> "Source"
          [] n = "ASSEMBLY_INFO_FILE" -> "Properties/AssemblyInfo.cs"
          [] n = "COMPILED_BINARY" -> "bin/Release/{PACKAGE_NAME}.dll"
          [] n = "MINIAVC_VERSION_FILE" -> "/{PACKAGE_NAME}.version"
          [] n = "RELEASE" -> "Release"
          [] n = "RELEASE_MOD_FOLDER" -> "{PACKAGE_NAME}"
          [] n = "RELEASE_NAME_FMT" -> "{PACKAGE_NAME}_v%d.%d.%d"
          [] n = "RELEASE_NAME_WITH_BUILD_FMT" -> "{PACKAGE_NAME}_v%d.%d.%d_build%d"
          [] OTHER -> ""]

\* the settings of the package M
BaseValues ==
    [n \in {"PACKAGE_NAME", "PROJECT_ROOT", "SOURCE", "RELEASE",
            "ASSEMBLY_INFO_FILE", "COMPILED_BINARY",
            "SHELL_COMPILE_BINARY_SCRIPT"} |->
        CASE n = "PACKAGE_NAME" -> "M"
          [] n = "PROJECT_ROOT" -> "."
          [] n = "SOURCE" -> "S"
          [] n = "RELEASE" -> "R"
          [] n = "ASSEMBLY_INFO_FILE" -> "/V"
          [] n = "COMPILED_BINARY" -> "/M.dll"
          [] n = "SHELL_COMPILE_BINARY_SCRIPT" -> "make"]

\* the mappings of the settings files: none, one that assembles, one whose
\* second entry fails, one that removes the GameData folder again
ReleaseStructures ==
    {<<>>,
     <<Entry("K", <<"a">>)>>,
     <<Entry("K", <<"n/*">>), Entry("/", <<"/L">>)>>,
     <<Entry("/", <<"/L", "-">>)>>}

\* the values of JSON_SCHEMA_VERSION of the settings files
Schemas ==
    {Absent, "", "1.0", "1.1", "1.2", "2.1", "0.1", "1", "1.1.0", "1.x",
     "1.-1", " 1.01", "11.1"}

SettingsFile(schema, values, structure) ==
    [found |-> TRUE, schema |-> schema, values |-> values,
     structure |-> structure]

\* the settings files of the model
SettingsFiles ==
    {SettingsFile("1.1", BaseValues, st) : st \in ReleaseStructures}
    \cup {SettingsFile(v, BaseValues, <<Entry("K", <<"a">>)>>) : v \in Schemas}
    \cup {SettingsFile(v, [n \in {"PACKAGE_NAME", "RELEASE", "FOO"} |-> "x"],
                       <<Entry("K", <<"a">>)>>) : v \in {"1.1", "2.0"}}
    \cup {SettingsFile("1.0", Without(BaseValues, {k}), <<Entry("K", <<"a">>)>>) :
             k \in {"PROJECT_ROOT", "SHELL_COMPILE_BINARY_SCRIPT"}}
    \cup {SettingsFile("1.1", With(BaseValues,
                                   [n \in {"RELEASE_NAME_FREE_FORMAT"} |-> f]),
                       <<Entry("K", <<"a">>)>>) : f \in {"r{0}.{1}", "{PACKAGE_NAME}-{3}"}}
    \cup {[SettingsFile("1.1", BaseValues, <<>>) EXCEPT !.found = FALSE]}

\* the project of the package M: the sources, the AssemblyInfo file, the
\* compile script, the MiniAVC version file and the repository folder
ReleaseProject ==
    With(With(SourceTree, Version123),
         [x \in {"/w/make", "/w/M.version", "/w/.git"} |->
             CASE x = "/w/make" -> "script"
               [] x = "/w/M.version" -> "{\"VERSION\": {}}"
               [] x = "/w/.git" -> "dir"])

\* one file of the project replaced or added
ProjectWith(path, text) ==
    With(ReleaseProject, [x \in {path} |-> text])

\* the projects of the model: as above; with archives of earlier runs; with
\* a version whose patch comes from the binary, with a build number, without
\* a version; with a version file lacking VERSION; without a repository
ReleaseProjects ==
    {ReleaseProject,
     With(ReleaseProject,
          [x \in {"/w/M_v1.2.3.zip", "/w/r1.2.zip"} |-> "zip:old"]),
     ProjectWith("/w/V", "[assembly: AssemblyVersion(\"1.2.*\")]"),
     ProjectWith("/w/V", "// c\n[assembly: AssemblyVersion (\"1.2.3.4\")]\n"),
     ProjectWith("/w/V", " // [assembly: AssemblyVersion(\"1.2.3\")]"),
     ProjectWith("/w/M.version", "{}"),
     Without(ReleaseProject, {"/w/.git"})}

\* the command lines: -c, or -j with or without -p and -o
CommandLines ==
    {[mode |-> "c", p |-> FALSE, o |-> FALSE]}
    \cup {[mode |-> "j", p |-> p, o |-> o] : p, o \in BOOLEAN}

\* the script starts: main has parsed the command line and made a builder
InitRelease ==
    /\ attrs = ClassAttrs
    /\ STRUCTURE = <<>>
    /\ fs \in ReleaseProjects
    /\ pc = "main"
    /\ err = ""
    /\ err_pattern = ""
    /\ sorted_targets = <<>>
    /\ ei = 0
    /\ pi = 0
    /\ dest_path = ""
    /\ copy_sources = [isNone |-> TRUE, items |-> <<>>]
    /\ drop_patterns = <<>>
    /\ ci = 0
    /\ di = 0
    /\ source = Unbound
    /\ log = {}
    /\ IdlePath
    /\ IdleMacro
    /\ runs = 1
    /\ first_release = NoTree
    /\ opts \in CommandLines
    /\ content \in SettingsFiles
    /\ code = 0
    /\ VERSION = <<>>
    /\ IdleNet
    /\ IdleLegacy

NextRelease ==
    \/ LoadSettingsFromJson
    \/ SetupBuildVariables
    \/ ResolveProjectRoot
    \/ CompileBinary
    \/ Next
    \/ MakePackage

SpecRelease == InitRelease /\ [][NextRelease]_vars

\* ------------------------------------------------------------------------
\* Two runs of the builder on one project
\* ------------------------------------------------------------------------

\* the release folder of the run, normalized
AbsReleaseFolder ==
    LET Norm(release) == normpath(release.path)
    IN  Norm(GetAbsReleaseFolder)

\* the script is started again after a run that went through: the same
\* settings, the file system as the first run left it
Rerun ==
    /\ pc = "Done"
    /\ runs = 1
    /\ runs' = 2
    /\ first_release' = Subtree(fs, AbsReleaseFolder)
    /\ pc' = "CleanupReleaseFolder"
    /\ sorted_targets' = <<>>
    /\ ei' = 0
    /\ pi' = 0
    /\ dest_path' = ""
    /\ copy_sources' = [isNone |-> TRUE, items |-> <<>>]
    /\ drop_patterns' = <<>>
    /\ ci' = 0
    /\ di' = 0
    /\ source' = Unbound
    /\ log' = {}
    /\ VERSION' = <<>>
    /\ UNCHANGED <<fs, err, err_pattern, opts, content, code>>
    /\ UNCHANGED <<cfg_vars, path_vars, macro_vars, legacy_vars, net_vars>>

\* a project with two folders holding a file of the same name
TwinTree ==
    With(SourceTree,
         [x \in {"/w/S/e", "/w/S/e/f"} |-> IF x = "/w/S/e" THEN "dir" ELSE x])

\* the mapping entries of the runs that are repeated
TwinEntries ==
    {Entry("", <<"a">>),
     Entry("/", <<"/L">>),
     Entry("J", <<"d/*", "e/*">>),
     Entry("K", <<"*">>),
     Entry("K", <<"*", "-a">>),
     Entry("K", <<"*/f">>),
     Entry("K", <<"?/f">>),
     Entry("K/u", <<"d", "a">>)}

TwinStructures ==
    {st \in UNION {[1..n -> TwinEntries] : n \in 0..MaxEntries} :
        \A i, j \in DOMAIN st : st[i].key = st[j].key => i = j}

InitTwice ==
    /\ attrs \in Contexts
    /\ STRUCTURE \in TwinStructures
    /\ fs \in {With(TwinTree, Version123),
                With(With(TwinTree, OldRelease), Version123)}
    /\ pc = "CleanupReleaseFolder"
    /\ err = ""
    /\ err_pattern = ""
    /\ sorted_targets = <<>>
    /\ ei = 0
    /\ pi = 0
    /\ dest_path = ""
    /\ copy_sources = [isNone |-> TRUE, items |-> <<>>]
    /\ drop_patterns = <<>>
    /\ ci = 0
    /\ di = 0
    /\ source = Unbound
    /\ log = {}
    /\ IdlePath
    /\ IdleMacro
    /\ FirstRun

NextTwice ==
    \/ Next
    \/ Rerun

SpecTwice == InitTwice /\ [][NextTwice]_vars

\* ------------------------------------------------------------------------
\* A release with a license file and part configurations
\* ------------------------------------------------------------------------

\* the project: LICENSE.md and three .cfg files under Parts, in the project
\* root
PartsProject ==
    [x \in {"/", "/w", "/w/LICENSE.md", "/w/Parts", "/w/Parts/a.cfg",
            "/w/Parts/b.cfg", "/w/Parts/c.cfg"} |->
        IF x \in {"/", "/w", "/w/Parts"} THEN "dir" ELSE x]

\* the release folder of an earlier run with a stray Parts/old.bak
StrayRelease ==
    [x \in {"/w/R", "/w/R/GameData", "/w/R/GameData/M", "/w/R/GameData/M/Parts",
            "/w/R/GameData/M/Parts/old.bak"} |->
        IF x = "/w/R/GameData/M/Parts/old.bak" THEN "old" ELSE "dir"]

\* the mapping with the deletion written as an entry of its own
KeyedDeletion ==
    {Entry("/", <<"LICENSE.md">>),
     Entry("Parts", <<"Parts/*.cfg">>),
     Entry("-Parts", <<"*.bak">>)}

\* the mapping with the deletion written as a pattern of the entry
PatternDeletion ==
    {Entry("/", <<"LICENSE.md">>),
     Entry("Parts", <<"Parts/*.cfg", "-*.bak">>)}

\* the entries of a mapping in the orders the dict may iterate them
DictOrders(mapping) ==
    {st \in [1..Cardinality(mapping) -> mapping] :
        \A i, j \in DOMAIN st : st[i] = st[j] => i = j}

\* the source root is the project root, or the folder S in it
PartsContexts ==
    {With(With(BaseAttrs("M"), ExtraAttrs), [n \in {"SOURCE"} |-> src]) :
        src \in {".", "S"}}

\* the assembler starts on the release folder as it was left, or after the
\* wipe of MakeRelease
InitParts ==
    /\ attrs \in PartsContexts
    /\ STRUCTURE \in DictOrders(KeyedDeletion) \cup DictOrders(PatternDeletion)
    /\ fs = With(With(PartsProject, StrayRelease), Version123)
    /\ pc \in {"CleanupReleaseFolder", "MakeFoldersStructure"}
    /\ err = ""
    /\ err_pattern = ""
    /\ sorted_targets = <<>>
    /\ ei = 0
    /\ pi = 0
    /\ dest_path = ""
    /\ copy_sources = [isNone |-> TRUE, items |-> <<>>]
    /\ drop_patterns = <<>>
    /\ ci = 0
    /\ di = 0
    /\ source = Unbound
    /\ log = {}
    /\ IdlePath
    /\ IdleMacro
    /\ FirstRun

SpecParts == InitParts /\ [][Next]_vars

\* ------------------------------------------------------------------------
\* The API clients: CurseForgeClient, SpacedockClient, GitHubClient
\* ------------------------------------------------------------------------

\* re.match(pattern, text) for patterns made of literal characters, escaped
\* characters, '.', and the repetitions '*' and '+' of one of these: TRUE when
\* the pattern matches at the start of the text
RECURSIVE ReMatch(_, _)
ReMatch(pattern, text) ==
    IF pattern = "" THEN TRUE
    ELSE LET Atom == IF Ch(pattern, 1) = "\\" THEN 2 ELSE 1
             Fits(c) ==
                 IF Ch(pattern, 1) = "\\" THEN c = Ch(pattern, 2)
                 ELSE Ch(pattern, 1) = "." \/ c = Ch(pattern, 1)
             Next1 == Ch(pattern, Atom + 1)
         IN  IF Next1 = "*"
                 THEN \/ ReMatch(From(pattern, Atom + 2), text)
                      \/ (text # "" /\ Fits(Ch(text, 1))
                          /\ ReMatch(pattern, From(text, 2)))
             ELSE IF Next1 = "+"
                 THEN /\ text # "" /\ Fits(Ch(text, 1))
                      /\ \/ ReMatch(From(pattern, Atom + 2), From(text, 2))
                         \/ ReMatch(pattern, From(text, 2))
             ELSE /\ text # "" /\ Fits(Ch(text, 1))
                  /\ ReMatch(From(pattern, Atom + 1), From(text, 2))

\* filter(f, list)
RECURSIVE Filter(_, _)
Filter(Keep(_), list) ==
    IF list = <<>> THEN <<>>
    ELSE (IF Keep(Head(list)) THEN <<Head(list)>> ELSE <<>>)
         \o Filter(Keep, Tail(list))

\* a game version as the clients keep it
Version(name, id) ==
    [name |-> name, id |-> id]

\* the HTTP status codes of the responses
Codes ==
    {200, 401, 403, 404, 422, 500}

\* the bodies of the responses: the JSON value the call is made for, a JSON
\* object with a key message, errorMessage, or error and reason, or a text
\* that is not JSON
Bodies ==
    {"payload", "message", "errorMessage", "error", "text"}

\* a response of the server; payload is the list of versions of a response
\* with the body "payload" to a request for the versions
Response(c, body, payload) ==
    [code |-> c, body |-> body, payload |-> payload]

\* a request on the wire, with the status code and the body it got
Request(kind, resp) ==
    [kind |-> kind, code |-> resp.code, body |-> resp.body]

\* what a client call gives: an exception, or a value
Raise(e) ==
    [err |-> e, value |-> <<>>]

Return(value) ==
    [err |-> "", value |-> value]

\* the response object _CallAPI returns
RespObj(error, resp) ==
    [error |-> error, body |-> resp.body, payload |-> resp.payload]

\* CurseForgeClient._CallAPI for the response resp; is_list tells whether the
\* payload of the endpoint is a JSON list
CurseForgeCallAPI(resp, is_list, raise_on_error) ==
    LET Final ==
            IF resp.body # "payload"
                THEN IF raise_on_error THEN Raise("BadResponseError")
                     ELSE Return(RespObj(TRUE, resp))
            ELSE Return(RespObj(FALSE, resp))
        Refused(e) ==
            IF resp.body = "errorMessage" THEN Raise(e)
            ELSE IF resp.body = "payload" /\ is_list THEN Raise("TypeError")
            ELSE Raise("KeyError")
    IN  IF resp.code = 200
            THEN IF resp.body = "text" THEN Raise("ValueError") ELSE Final
        ELSE IF resp.code = 401 THEN Refused("AuthorizationRequiredError")
        ELSE IF resp.code = 403 THEN Refused("BadCredentialsError")
        ELSE Final

\* SpacedockClient._CallAPI
SpacedockCallAPI(resp, is_list, raise_on_error) ==
    LET Final ==
            IF resp.body \in {"error", "text"}
                THEN IF raise_on_error THEN Raise("BadResponseError")
                     ELSE Return(RespObj(TRUE, resp))
            ELSE Return(RespObj(FALSE, resp))
    IN  IF resp.code = 200
            THEN IF resp.body = "text" THEN Raise("ValueError") ELSE Final
        ELSE IF resp.code = 401
            THEN IF resp.body \in {"error", "text"}
                     THEN Raise("AuthorizationRequiredError")
                 ELSE IF resp.body = "payload" /\ is_list THEN Raise("TypeError")
                 ELSE Raise("KeyError")
        ELSE Final

\* CurseForgeClient._GetAuthorizedEndpoint: "" or the error
CurseForgeGetAuthorizedEndpoint ==
    IF API_TOKEN = "" THEN "AuthorizationRequiredError" ELSE ""

\* the outcome of GetKSPVersions: the value or error, the new cache and the
\* requests sent
Versions(out, cache, sent) ==
    [err |-> out.err, value |-> out.value, cached_versions |-> cache,
     sent |-> sent]

\* the end of GetKSPVersions: the cached list, filtered by the pattern if one
\* is given ("" is None)
Filtered(pattern, cache, sent) ==
    LET Keep(x) == ReMatch(pattern, x.name)
    IN  Versions(Return(IF pattern # "" THEN Filter(Keep, cache.items)
                        ELSE cache.items),
                 cache, sent)

\* the list fetched from the server is cached, or the call fails: a response
\* object that is not a list makes the map fail
Fetched(pattern, called, resp) ==
    IF called.err # ""
        THEN Versions(called, cached_versions, <<Request("versions", resp)>>)
    ELSE IF called.value.body # "payload"
        THEN Versions(Raise("TypeError"), cached_versions,
                      <<Request("versions", resp)>>)
    ELSE Filtered(pattern, [isNone |-> FALSE, items |-> called.value.payload],
                  <<Request("versions", resp)>>)

\* the cache is empty for the test 'if not cached_versions'
CacheEmpty ==
    cached_versions.isNone \/ cached_versions.items = <<>>

\* CurseForgeClient.GetKSPVersions(pattern), the server answering resp if it
\* is asked
CurseForgeGetKSPVersions(pattern, resp) ==
    IF CacheEmpty
        THEN IF CurseForgeGetAuthorizedEndpoint # ""
                 THEN Versions(Raise(CurseForgeGetAuthorizedEndpoint),
                               cached_versions, <<>>)
             ELSE Fetched(pattern, CurseForgeCallAPI(resp, TRUE, TRUE), resp)
    ELSE Filtered(pattern, cached_versions, <<>>)

\* SpacedockClient.GetKSPVersions(pattern)
SpacedockGetKSPVersions(pattern, resp) ==
    IF CacheEmpty
        THEN Fetched(pattern, SpacedockCallAPI(resp, TRUE, TRUE), resp)
    ELSE Filtered(pattern, cached_versions, <<>>)

\* the lists of versions the server has
ServerLists ==
    {<<>>,
     <<Version("1.4.5", 3)>>,
     <<Version("1.3.1", 2), Version("1.4.5", 3), Version("1.4.3", 1)>>}

\* the responses of the server to a request for the versions
VersionResponses ==
    {Response(c, "payload", l) : c \in {200, 404}, l \in ServerLists}
    \cup {Response(c, b, <<>>) : c \in Codes, b \in Bodies \ {"payload"}}

\* the patterns of the callers: none, all builds of 1.4, one of 1.3
VersionPatterns ==
    {"", "1\\.4\\..+", "1.3", "2\\..*"}

\* the largest number of client calls in a behaviour
MaxCalls == 2

\* a call of GetKSPVersions by the program that imported the client
GetKSPVersions ==
    /\ stage = "idle"
    /\ site \in {"CurseForge", "Spacedock"}
    /\ calls < MaxCalls
    /\ \E pattern \in VersionPatterns, resp \in VersionResponses :
           LET Done(res) ==
                   /\ cached_versions' = res.cached_versions
                   /\ requests' = requests \o res.sent
                   /\ outcome' = [err |-> res.err, value |-> res.value]
           IN  Done(IF site = "CurseForge"
                        THEN CurseForgeGetKSPVersions(pattern, resp)
                    ELSE SpacedockGetKSPVersions(pattern, resp))
    /\ calls' = calls + 1
    /\ UNCHANGED <<site, API_TOKEN, API_LOGIN, API_PASS, authorized_cookie,
                   publish_vars>>
    /\ UNCHANGED <<cfg_vars, run_vars, path_vars, macro_vars, legacy_vars, rerun_vars,
                   release_vars>>

\* GitHubClient._CallAPI; no endpoint of GitHub used here answers with a
\* JSON list
GitHubCallAPI(resp, raise_on_error) ==
    LET Failed ==
            IF raise_on_error THEN Raise("BadResponseError")
            ELSE Return(RespObj(TRUE, resp))
    IN  IF resp.code = 200
            THEN IF resp.body = "text" THEN Raise("ValueError")
                 ELSE IF resp.body = "error" THEN Failed
                 ELSE Return(RespObj(FALSE, resp))
        ELSE IF resp.body = "text" THEN Raise("BadResponseError")
        ELSE IF resp.code \in {401, 403} THEN Raise("AuthorizationRequiredError")
        ELSE IF resp.code = 422 THEN Raise("BadResponseError")
        ELSE Failed

\* GitHubClient._GetAuthorizedEndpoint: "" or the error
GitHubGetAuthorizedEndpoint ==
    IF API_TOKEN = "" THEN "AuthorizationRequiredError" ELSE ""

\* the extension of a file name, from the last dot on
Extension(name) ==
    IF RFindCh(name, ".") <= 1 THEN "" ELSE From(name, RFindCh(name, "."))

\* mimetypes.guess_type(basename, strict=False): the type of the extension,
\* "" for None
guess_type(name) ==
    CASE Extension(name) = ".zip" -> "application/zip"
      [] Extension(name) = ".txt" -> "text/plain"
      [] Extension(name) = ".json" -> "application/json"
      [] OTHER -> ""

\* the loop of CreateRelease over the files: "" or the error of the first
\* file that is missing or has no known type
RECURSIVE CheckFiles(_, _)
CheckFiles(f, files) ==
    IF files = <<>> THEN ""
    ELSE IF ~isfile(f, abspath(Head(files))) THEN "BadRequestError"
    ELSE IF guess_type(basename(abspath(Head(files)))) = "" THEN "BadRequestError"
    ELSE CheckFiles(f, Tail(files))

\* the outcome of a client call: the value or error and the requests sent
Called(out, sent) ==
    [err |-> out.err, value |-> out.value, sent |-> sent]

\* the response object is used as the object the call was made for: the key
\* id is read from it
Read(called, sent) ==
    IF called.err # "" THEN Called(called, sent)
    ELSE IF called.value.body # "payload" THEN Called(Raise("KeyError"), sent)
    ELSE Called(called, sent)

\* GitHubClient.UploadFilesToRelease: one request per file, answered by the
\* responses of resps in turn
RECURSIVE UploadFilesToRelease(_, _, _)
UploadFilesToRelease(upload_files, resps, sent) ==
    IF upload_files = <<>> THEN Called(Return(<<>>), sent)
    ELSE LET Added(res) ==
                 IF res.err # "" THEN res
                 ELSE UploadFilesToRelease(Tail(upload_files), Tail(resps),
                                           res.sent)
         IN  Added(Read(GitHubCallAPI(Head(resps), TRUE),
                        Append(sent, Request("asset", Head(resps)))))

\* GitHubClient.CreateRelease(..., files): the server answers the request for
\* the release with release_resp and the uploads with the responses of resps
CreateRelease(f, files, release_resp, resps) ==
    LET Created(res) ==
            IF res.err # "" THEN res
            ELSE UploadFilesToRelease(files, resps, res.sent)
    IN  IF CheckFiles(f, files) # ""
            THEN Called(Raise(CheckFiles(f, files)), <<>>)
        ELSE IF GitHubGetAuthorizedEndpoint # ""
            THEN Called(Raise(GitHubGetAuthorizedEndpoint), <<>>)
        ELSE Created(Read(GitHubCallAPI(release_resp, TRUE),
                          <<Request("release", release_resp)>>))

\* the responses of GitHub
GitHubResponses ==
    {Response(c, b, <<>>) : c \in Codes, b \in {"payload", "message", "text"}}
    \cup {Response(200, "error", <<>>)}

\* the largest number of files of a release
MaxFiles == 2

\* the lists of responses to the uploads of a release
UploadResponses ==
    UNION {[1..n -> GitHubResponses] : n \in {MaxFiles}}

\* a call of CreateRelease by the program that imported the client
GitHubCreateRelease ==
    /\ stage = "idle"
    /\ site = "GitHub"
    /\ calls < MaxCalls
    /\ \E release_resp \in GitHubResponses, resps \in UploadResponses :
           LET Done(res) ==
                   /\ requests' = requests \o res.sent
                   /\ outcome' = [err |-> res.err, value |-> res.value]
           IN  Done(CreateRelease(fs, job.files, release_resp, resps))
    /\ calls' = calls + 1
    /\ UNCHANGED <<site, API_TOKEN, API_LOGIN, API_PASS, cached_versions,
                   authorized_cookie, publish_vars>>
    /\ UNCHANGED <<cfg_vars, run_vars, path_vars, macro_vars, legacy_vars, rerun_vars,
                   release_vars>>

\* ------------------------------------------------------------------------
\* The publish scripts: PublishCurseForge, PublishGitHub, PublishSpacedock
\* ------------------------------------------------------------------------

UpperCase ==
    "ABCDEFGHIJKLMNOPQRSTUVWXYZ"

LowerCase ==
    "abcdefghijklmnopqrstuvwxyz"

\* s.lower()
RECURSIVE lower(_)
lower(s) ==
    IF s = "" THEN ""
    ELSE (IF FindCh(UpperCase, Ch(s, 1), 1) > 0
              THEN Ch(LowerCase, FindCh(UpperCase, Ch(s, 1), 1))
          ELSE Ch(s, 1))
         \o lower(From(s, 2))

\* s.strip() of blanks and line ends
RECURSIVE strip(_)
strip(s) ==
    IF Ch(s, 1) \in {" ", "\n"} THEN strip(From(s, 2))
    ELSE IF Ch(s, Len(s)) \in {" ", "\n"} THEN strip(Upto(s, Len(s) - 1))
    ELSE s

\* the loop of _ExtractDescription over the lines, with the default breaker
\* '^\s*$': the empty lines at the top are skipped, the lines up to the next
\* empty one are taken
RECURSIVE TakeLines(_, _)
TakeLines(lines, changelog) ==
    IF lines = <<>> THEN changelog
    ELSE IF changelog = "" /\ strip(Head(lines)) = ""
        THEN TakeLines(Tail(lines), changelog)
    ELSE IF strip(Head(lines)) = "" THEN changelog
    ELSE TakeLines(Tail(lines), changelog \o Head(lines) \o "\n")

\* _ExtractDescription(changelog_file, breaker_re) and
\* ChangelogUtils.ExtractDescription
ExtractDescription(f, changelog_file) ==
    IF ~isfile(f, abspath(changelog_file)) THEN Raise("IOError")
    ELSE Return(strip(TakeLines(StrSplit(f[abspath(changelog_file)], "\n"), "")))

\* re.findall of the default tag expressions in a file name: '.+?_(v.+?)\.zip'
\* when with_v, else '.+?_v(.+?)\.zip'
RECURSIVE findall(_, _)
findall(name, with_v) ==
    LET Fits(a, b) ==
            /\ a + b + 6 <= Len(name)
            /\ SubSeq(name, a + 1, a + 2) = "_v"
            /\ SubSeq(name, a + b + 3, a + b + 6) = ".zip"
        Found(cand) ==
            IF cand = {} THEN <<>>
            ELSE LET First(m) ==
                         <<(IF with_v THEN "v" ELSE "")
                            \o SubSeq(name, m[1] + 3, m[1] + m[2] + 2)>>
                         \o findall(From(name, m[1] + m[2] + 7), with_v)
                 IN  First(CHOOSE m \in cand :
                               \A o \in cand :
                                   m[1] < o[1] \/ (m[1] = o[1] /\ m[2] <= o[2]))
    IN  Found({m \in (1..Len(name)) \X (1..Len(name)) : Fits(m[1], m[2])})

\* re.match(r'^(.+?\..+?)(\..+)?$', name).group(1); ok is FALSE when the
\* expression does not match
VersionPrefixOf(name) ==
    LET Fits(a, b) ==
            /\ a + b + 1 <= Len(name)
            /\ Ch(name, a + 1) = "."
            /\ \/ a + b + 1 = Len(name)
               \/ (Ch(name, a + b + 2) = "." /\ a + b + 3 <= Len(name))
        Found(cand) ==
            IF cand = {} THEN [ok |-> FALSE, text |-> ""]
            ELSE LET First(m) == [ok |-> TRUE, text |-> Upto(name, m[1] + m[2] + 1)]
                 IN  First(CHOOSE m \in cand :
                               \A o \in cand :
                                   m[1] < o[1] \/ (m[1] = o[1] /\ m[2] <= o[2]))
    IN  Found({m \in (1..Len(name)) \X (1..Len(name)) : Fits(m[1], m[2])})

\* sorted(versions, key=lambda x: x['id'], reverse=True)
RECURSIVE SortedById(_)
SortedById(versions) ==
    IF versions = <<>> THEN <<>>
    ELSE LET Rest(i) ==
                 <<versions[i]>>
                 \o SortedById(SubSeq(versions, 1, i - 1)
                               \o SubSeq(versions, i + 1, Len(versions)))
         IN  Rest(CHOOSE i \in DOMAIN versions :
                      /\ \A j \in DOMAIN versions : versions[j].id <= versions[i].id
                      /\ \A j \in 1..(i - 1) : versions[j].id < versions[i].id)

\* map(lambda x: x['name'], versions)
Names(versions) ==
    [i \in DOMAIN versions |-> versions[i].name]

\* os.path.splitext(name)[0]
splitext(name) ==
    IF Extension(name) = "" THEN name ELSE Upto(name, Len(name) - Len(Extension(name)))

\* title.format(tag=tag) of a title that holds {tag} at most once
FormatTag(title, tag) ==
    IF \E i \in 1..Len(title) : Upto(From(title, i), 5) = "{tag}"
        THEN LET At(i) == Upto(title, i - 1) \o tag \o From(title, i + 5)
             IN  At(CHOOSE i \in 1..Len(title) : Upto(From(title, i), 5) = "{tag}")
    ELSE title

\* the outcome of a part of a script: the error or value, the cache and the
\* cookie of the client, the requests sent
Part(e, value, cache, cookie, sent) ==
    [err |-> e, value |-> value, cached_versions |-> cache,
     authorized_cookie |-> cookie, sent |-> sent]

\* CurseForgeClient.GetProjectDetails and SpacedockClient.GetModDetails
GetProjectDetails(resp) ==
    Called(CurseForgeCallAPI(resp, FALSE, TRUE), <<Request("details", resp)>>)

GetModDetails(resp) ==
    Called(SpacedockCallAPI(resp, FALSE, TRUE), <<Request("details", resp)>>)

\* FormDataUtil.EncodeFormData: the file is read
EncodeFormData(f, filepath) ==
    IF isfile(f, abspath(filepath)) THEN "" ELSE "IOError"

\* CurseForgeClient.UploadFile: the versions are looked up, the form is
\* encoded, the file is uploaded
CurseForgeUploadFile(f, filepath, versions_resp, upload_resp) ==
    LET Uploaded(v, called) ==
            Part(called.err, called.value, v.cached_versions, authorized_cookie,
                 v.sent \o <<Request("upload", upload_resp)>>)
        Looked(v) ==
            IF v.err # ""
                THEN Part(v.err, <<>>, v.cached_versions, authorized_cookie, v.sent)
            ELSE IF EncodeFormData(f, filepath) # ""
                THEN Part(EncodeFormData(f, filepath), <<>>, v.cached_versions,
                          authorized_cookie, v.sent)
            ELSE IF CurseForgeGetAuthorizedEndpoint # ""
                THEN Part(CurseForgeGetAuthorizedEndpoint, <<>>,
                          v.cached_versions, authorized_cookie, v.sent)
            ELSE Uploaded(v, CurseForgeCallAPI(upload_resp, FALSE, TRUE))
    IN  Looked(CurseForgeGetKSPVersions("", versions_resp))

\* SpacedockClient._GetAuthorizedEndpoint: the cookie of an earlier login is
\* used, or the client logs in
SpacedockGetAuthorizedEndpoint(login_resp) ==
    LET In(called) ==
            IF called.err # ""
                THEN Part(called.err, <<>>, cached_versions, authorized_cookie,
                          <<Request("login", login_resp)>>)
            ELSE IF called.value.error
                THEN Part("BadCredentialsError", <<>>, cached_versions,
                          authorized_cookie, <<Request("login", login_resp)>>)
            ELSE IF called.value.body # "payload"
                THEN Part("KeyError", <<>>, cached_versions, authorized_cookie,
                          <<Request("login", login_resp)>>)
            ELSE Part("", <<>>, cached_versions, "cookie",
                      <<Request("login", login_resp)>>)
    IN  IF authorized_cookie # ""
            THEN Part("", <<>>, cached_versions, authorized_cookie, <<>>)
        ELSE IF API_LOGIN = "" \/ API_PASS = ""
            THEN Part("BadCredentialsError", <<>>, cached_versions,
                      authorized_cookie, <<>>)
        ELSE In(SpacedockCallAPI(login_resp, FALSE, FALSE))

\* SpacedockClient.UploadFile
SpacedockUploadFile(f, filepath, login_resp, upload_resp) ==
    LET Uploaded(auth, called) ==
            Part(called.err, <<>>, cached_versions, auth.authorized_cookie,
                 auth.sent \o <<Request("upload", upload_resp)>>)
        Authorized(auth) ==
            IF auth.err # "" THEN auth
            ELSE Uploaded(auth, SpacedockCallAPI(upload_resp, FALSE, TRUE))
    IN  IF EncodeFormData(f, filepath) # ""
            THEN Part(EncodeFormData(f, filepath), <<>>, cached_versions,
                      authorized_cookie, <<>>)
        ELSE Authorized(SpacedockGetAuthorizedEndpoint(login_resp))

\* the release a script shows at the prompt
Release(desc, title, versions) ==
    [desc |-> desc, title |-> title, versions |-> versions]

\* the end of the input at a prompt: raw_input raises EOFError
EndOfInput == "<eof>"

\* the test of the answer, 'if choice != 'y' and choice != 'Y'', on the
\* lowered answer
AbortedOnNo(c) ==
    c = "n"

Aborted(c) ==
    c # "y" /\ c # "Y"

\* a script stops: exit(-1), or an exception
Stopped(e, part) ==
    Part(e, <<>>, part.cached_versions, part.authorized_cookie, part.sent)

\* PublishCurseForge.main, the versions of the game the file is added for
CurseForgeGameVersions(versions_re, resp) ==
    LET Latest(v) ==
            IF v.err # "" THEN Stopped(v.err, v)
            ELSE IF v.value = <<>> THEN Stopped("SystemExit", v)
            ELSE IF versions_re = "latest"
                THEN Part("", SubSeq(Names(SortedById(v.value)), 1, 1),
                          v.cached_versions, authorized_cookie, v.sent)
            ELSE IF ~VersionPrefixOf(SortedById(v.value)[1].name).ok
                THEN Stopped("AttributeError", v)
            ELSE LET Keep(x) ==
                         StartsWith(x, VersionPrefixOf(SortedById(v.value)[1].name).text)
                 IN  Part("", Filter(Keep, Names(SortedById(v.value))),
                          v.cached_versions, authorized_cookie, v.sent)
        Matching(v) ==
            IF v.err # "" THEN Stopped(v.err, v)
            ELSE IF v.value = <<>> THEN Stopped("SystemExit", v)
            ELSE Part("", Names(v.value), v.cached_versions, authorized_cookie,
                      v.sent)
        On(v) ==
            [err |-> v.err, value |-> v.value,
             cached_versions |-> v.cached_versions,
             authorized_cookie |-> authorized_cookie, sent |-> v.sent]
    IN  IF versions_re \in {"latest", "latest_all_builds"}
            THEN Latest(On(CurseForgeGetKSPVersions("", resp)))
        ELSE Matching(On(CurseForgeGetKSPVersions(versions_re, resp)))

\* PublishCurseForge.main from the versions to the prompt
CurseForgePrepared(f, j, versions_resp, details_resp) ==
    LET Detailed(v, desc, title, d) ==
            IF d.err # ""
                THEN Part(d.err, <<>>, v.cached_versions, v.authorized_cookie,
                          v.sent \o d.sent)
            ELSE Part("", Release(desc, title, v.value), v.cached_versions,
                      v.authorized_cookie, v.sent \o d.sent)
        Titled(v, desc, title) ==
            IF ~isfile(f, abspath(j.archive)) THEN Stopped("SystemExit", v)
            ELSE LET On(d) == Detailed(v, desc, title, Read(d, d.sent))
                 IN  On(GetProjectDetails(details_resp))
        Described(v, desc) ==
            IF desc.err # "" THEN Stopped(desc.err, v)
            ELSE IF j.title = ""
                THEN Titled(v, desc.value, splitext(basename(j.archive)))
            ELSE IF Len(findall(basename(j.archive), TRUE)) # 1
                THEN Stopped("SystemExit", v)
            ELSE Titled(v, desc.value,
                        FormatTag(j.title, findall(basename(j.archive), TRUE)[1]))
        Versioned(v) ==
            IF v.err # "" THEN v
            ELSE Described(v, ExtractDescription(f, j.changelog))
    IN  Versioned(CurseForgeGameVersions(j.versions, versions_resp))

\* PublishGitHub.main up to the prompt: no request is sent
GitHubPrepared(f, j) ==
    LET Here == Part("", <<>>, cached_versions, authorized_cookie, <<>>)
        Described(desc) ==
            IF desc.err # "" THEN Stopped(desc.err, Here)
            ELSE IF Len(findall(basename(j.archive), FALSE)) # 1
                THEN Stopped("SystemExit", Here)
            ELSE IF ~isfile(f, abspath(j.archive)) THEN Stopped("SystemExit", Here)
            ELSE Part("",
                      Release(desc.value,
                              IF j.title # ""
                                  THEN FormatTag(j.title,
                                                 findall(basename(j.archive), FALSE)[1])
                              ELSE splitext(basename(j.archive)),
                              findall(basename(j.archive), FALSE)),
                      cached_versions, authorized_cookie, <<>>)
    IN  Described(ExtractDescription(f, j.changelog))

\* PublishSpacedock.main, the version of the game the file is added for
SpacedockGameVersion(versions_re, resp) ==
    LET Picked(v) ==
            IF v.err # "" THEN Stopped(v.err, v)
            ELSE IF v.value = <<>> THEN Stopped("SystemExit", v)
            ELSE IF versions_re # "latest" /\ Len(v.value) > 1
                THEN Stopped("SystemExit", v)
            ELSE IF versions_re # "latest"
                THEN Part("", <<v.value[1].name>>, v.cached_versions,
                          authorized_cookie, v.sent)
            ELSE Part("", <<SortedById(v.value)[1].name>>, v.cached_versions,
                      authorized_cookie, v.sent)
        On(v) ==
            [err |-> v.err, value |-> v.value,
             cached_versions |-> v.cached_versions,
             authorized_cookie |-> authorized_cookie, sent |-> v.sent]
    IN  Picked(On(SpacedockGetKSPVersions(
                      IF versions_re = "latest" THEN "" ELSE versions_re, resp)))

\* PublishSpacedock.main from the versions to the prompt; the option github
\* is not given. A mod the server asks authorization for is shown as
\* unpublished.
SpacedockPrepared(f, j, versions_resp, details_resp) ==
    LET Detailed(v, desc, tag, d) ==
            IF d.err = "AuthorizationRequiredError"
                THEN Part("", Release(desc, tag, v.value), v.cached_versions,
                          v.authorized_cookie, v.sent \o d.sent)
            ELSE IF d.err # "" \/ d.value.body # "payload"
                THEN Part(IF d.err # "" THEN d.err ELSE "KeyError", <<>>,
                          v.cached_versions, v.authorized_cookie,
                          v.sent \o d.sent)
            ELSE Part("", Release(desc, tag, v.value), v.cached_versions,
                      v.authorized_cookie, v.sent \o d.sent)
        Described(v, desc) ==
            IF desc.err # "" THEN Stopped(desc.err, v)
            ELSE IF Len(findall(basename(j.archive), FALSE)) # 1
                THEN Stopped("SystemExit", v)
            ELSE IF ~isfile(f, abspath(j.archive)) THEN Stopped("SystemExit", v)
            ELSE Detailed(v, desc.value, findall(basename(j.archive), FALSE)[1],
                          GetModDetails(details_resp))
        Versioned(v) ==
            IF v.err # "" THEN v
            ELSE Described(v, ExtractDescription(f, j.changelog))
    IN  Versioned(SpacedockGameVersion(j.versions, versions_resp))

\* the responses to the requests for the details of a project or mod, to a
\* login and to an upload
DetailResponses ==
    {Response(c, b, <<>>) : c \in {200, 401, 404}, b \in {"payload", "message", "text"}}

UploadAnswers ==
    {Response(c, b, <<>>) : c \in {200, 401, 500}, b \in {"payload", "message", "text"}}

\* the versions the server answers a script with
ScriptVersionResponses ==
    {Response(200, "payload", l) : l \in ServerLists}
    \cup {Response(401, "message", <<>>), Response(200, "text", <<>>)}

\* the answers typed at the prompt 'Continue? [y/N]: '
Answers ==
    {"y", "Y", "n", "N", "", "yes", " y", "Y ", "yY"}

\* a part of a script has run: the client's state, the requests and the
\* outcome are those of the part; the script goes on to next_stage unless it
\* stopped
Ran(part, next_stage) ==
    /\ cached_versions' = part.cached_versions
    /\ authorized_cookie' = part.authorized_cookie
    /\ requests' = requests \o part.sent
    /\ outcome' = [err |-> part.err, value |-> part.value]
    /\ stage' = IF part.err = "" THEN next_stage ELSE "exit"

\* the options are parsed and the token is given to the client
\* (PublishCurseForge, PublishGitHub)
SetToken ==
    /\ stage = "start"
    /\ site \in {"CurseForge", "GitHub"}
    /\ API_TOKEN' = job.token
    /\ stage' = "prepare"
    /\ UNCHANGED <<site, API_LOGIN, API_PASS, cached_versions,
                   authorized_cookie, requests, calls, outcome, choice, job>>
    /\ UNCHANGED <<cfg_vars, run_vars, path_vars, macro_vars, legacy_vars, rerun_vars,
                   release_vars>>

\* main of a script, up to the prompt
Prepare ==
    /\ \/ stage = "prepare" /\ site \in {"CurseForge", "GitHub"}
       \/ stage = "start" /\ site = "Spacedock"
    /\ \E versions_resp \in ScriptVersionResponses, details_resp \in DetailResponses :
           Ran(IF site = "CurseForge"
                   THEN CurseForgePrepared(fs, job, versions_resp, details_resp)
               ELSE IF site = "GitHub" THEN GitHubPrepared(fs, job)
               ELSE SpacedockPrepared(fs, job, versions_resp, details_resp),
               "prompt")
    /\ UNCHANGED <<site, API_TOKEN, API_LOGIN, API_PASS, calls, choice, job>>
    /\ UNCHANGED <<cfg_vars, run_vars, path_vars, macro_vars, legacy_vars, rerun_vars,
                   release_vars>>

\* the answer is read and tested; PublishCurseForge and PublishGitHub then
\* publish, PublishSpacedock goes on to the login
Answer ==
    /\ stage = "prompt"
    /\ \E answer \in Answers \cup {EndOfInput},
          versions_resp \in ScriptVersionResponses,
          first \in UploadAnswers, second \in UploadAnswers :
           LET Here == Part("", outcome.value, cached_versions,
                            authorized_cookie, <<>>)
               Published(called) ==
                   Part(called.err, outcome.value, cached_versions,
                        authorized_cookie, called.sent)
           IN  /\ job' = [job EXCEPT !.answer = answer]
               /\ choice' = IF answer = EndOfInput THEN choice ELSE lower(answer)
               /\ Ran(IF answer = EndOfInput THEN Stopped("EOFError", Here)
                      ELSE IF Aborted(lower(answer)) THEN Stopped("SystemExit", Here)
                      ELSE IF site = "CurseForge"
                          THEN CurseForgeUploadFile(fs, job.archive, versions_resp,
                                                    first)
                      ELSE IF site = "GitHub"
                          THEN Published(CreateRelease(fs, <<abspath(job.archive)>>,
                                                       first, <<second>>))
                      ELSE Here,
                      IF site = "Spacedock" THEN "login" ELSE "done")
    /\ UNCHANGED <<site, API_TOKEN, API_LOGIN, API_PASS, calls>>
    /\ UNCHANGED <<cfg_vars, run_vars, path_vars, macro_vars, legacy_vars, rerun_vars,
                   release_vars>>

\* PublishSpacedock.main after the prompt: the login and the password of the
\* options, or the ones typed, are given to the client
SetLogin ==
    /\ stage = "login"
    /\ \E typed_login \in {"", "U"}, typed_pass \in {"", "p"} :
           /\ API_LOGIN' = IF job.login # "" THEN job.login ELSE lower(typed_login)
           /\ API_PASS' = IF job.pass # "" THEN job.pass ELSE typed_pass
    /\ stage' = "upload"
    /\ UNCHANGED <<site, API_TOKEN, cached_versions, authorized_cookie,
                   requests, calls, outcome, choice, job>>
    /\ UNCHANGED <<cfg_vars, run_vars, path_vars, macro_vars, legacy_vars, rerun_vars,
                   release_vars>>

\* PublishSpacedock.main, the upload
Upload ==
    /\ stage = "upload"
    /\ \E login_resp \in UploadAnswers, upload_resp \in UploadAnswers :
           LET Kept(part) ==
                   Part(part.err, outcome.value, part.cached_versions,
                        part.authorized_cookie, part.sent)
           IN  Ran(Kept(SpacedockUploadFile(fs, job.archive, login_resp,
                                            upload_resp)),
                   "done")
    /\ UNCHANGED <<site, API_TOKEN, API_LOGIN, API_PASS, calls, choice, job>>
    /\ UNCHANGED <<cfg_vars, run_vars, path_vars, macro_vars, legacy_vars, rerun_vars,
                   release_vars>>

\* the exit status of a script that ended: 255 for exit(-1), 1 for an
\* exception that is not caught; PublishGitHub catches and logs every
\* Exception around main
PublishStatus ==
    IF stage = "done" THEN 0
    ELSE IF outcome.err = "SystemExit" THEN 255
    ELSE IF site = "GitHub" THEN 0
    ELSE 1

\* the files on the disk of the program that publishes
PublishTree ==
    With(SourceTree,
         [x \in {"/w/M_v1.2.3.zip", "/w/notes.txt", "/w/M.bin", "/w/M.zip",
                 "/w/CHANGELOG.md"} |->
             IF x = "/w/CHANGELOG.md" THEN "\n# 1.2.3\n* Fix 12\n \n# 1.2.2\n"
             ELSE x])

\* the builder is not running
IdleBuilder ==
    /\ attrs = ClassAttrs
    /\ STRUCTURE = <<>>
    /\ fs = PublishTree
    /\ pc = "Idle"
    /\ err = ""
    /\ err_pattern = ""
    /\ sorted_targets = <<>>
    /\ ei = 0
    /\ pi = 0
    /\ dest_path = ""
    /\ copy_sources = [isNone |-> TRUE, items |-> <<>>]
    /\ drop_patterns = <<>>
    /\ ci = 0
    /\ di = 0
    /\ source = Unbound
    /\ log = {}
    /\ IdlePath
    /\ IdleMacro
    /\ runs = 1
    /\ first_release = NoTree
    /\ IdleRelease
    /\ IdleLegacy

\* a program has imported one of the two clients and set the token, or not
InitVersions ==
    /\ IdleBuilder
    /\ site \in {"CurseForge", "Spacedock"}
    /\ API_TOKEN \in {"", "t"}
    /\ API_LOGIN = ""
    /\ API_PASS = ""
    /\ cached_versions = NoVersions
    /\ authorized_cookie = ""
    /\ requests = <<>>
    /\ calls = 0
    /\ outcome = NoOutcome
    /\ stage = "idle"
    /\ choice = ""
    /\ job = NoJob

NextVersions ==
    GetKSPVersions

SpecVersions == InitVersions /\ [][NextVersions]_vars

\* the lists of files given to CreateRelease
FileLists ==
    {<<>>,
     <<"/w/M_v1.2.3.zip">>,
     <<"/w/M_v1.2.3.zip", "/w/notes.txt">>,
     <<"/w/M_v1.2.4.zip">>,
     <<"/w/M_v1.2.3.zip", "/w/M.bin">>,
     <<"/w/S">>}

\* a program has imported GitHubClient, set the token or not, and is about
\* to create releases with a list of files
InitGitHub ==
    /\ IdleBuilder
    /\ site = "GitHub"
    /\ API_TOKEN \in {"", "t"}
    /\ API_LOGIN = ""
    /\ API_PASS = ""
    /\ cached_versions = NoVersions
    /\ authorized_cookie = ""
    /\ requests = <<>>
    /\ calls = 0
    /\ outcome = NoOutcome
    /\ stage = "idle"
    /\ choice = ""
    /\ job \in {[NoJob EXCEPT !.files = files] : files \in FileLists}

NextGitHub ==
    GitHubCreateRelease

SpecGitHub == InitGitHub /\ [][NextGitHub]_vars

\* the command lines of the scripts
Job(versions, archive, title, changelog, login, pass, token) ==
    [versions |-> versions, archive |-> archive, title |-> title,
     changelog |-> changelog, login |-> login, pass |-> pass,
     token |-> token, answer |-> "", files |-> <<>>]

Jobs ==
    {Job(v, "M_v1.2.3.zip", "", "CHANGELOG.md", "u", "p", "t") :
         v \in {"latest", "latest_all_builds", "1\\.4\\..+", "2\\..*"}}
    \cup {Job("latest", a, t, "CHANGELOG.md", "u", "p", "t") :
              a \in {"M.zip", "M_v1.2.4.zip", "M_v1.2.3.zip"},
              t \in {"", "N {tag}"}}
    \cup {Job("latest", "M_v1.2.3.zip", "", "none.md", "u", "p", "t"),
          Job("latest", "M_v1.2.3.zip", "", "CHANGELOG.md", "", "", "t"),
          Job("latest", "M_v1.2.3.zip", "", "CHANGELOG.md", "u", "p", "")}

\* one of the three scripts is started with a command line
InitPublish ==
    /\ IdleBuilder
    /\ site \in {"CurseForge", "GitHub", "Spacedock"}
    /\ API_TOKEN = ""
    /\ API_LOGIN = ""
    /\ API_PASS = ""
    /\ cached_versions = NoVersions
    /\ authorized_cookie = ""
    /\ requests = <<>>
    /\ calls = 0
    /\ outcome = NoOutcome
    /\ stage = "start"
    /\ choice = Unbound
    /\ job \in Jobs

NextPublish ==
    \/ SetToken
    \/ Prepare
    \/ Answer
    \/ SetLogin
    \/ Upload

SpecPublish == InitPublish /\ [][NextPublish]_vars

\* entries with several patterns: deletions declared before and between the
\* copies, a plain pattern without a match behind one with matches
PatternEntries ==
    {Entry("K", <<"*", "-d", "-a">>),
     Entry("K", <<"-a", "a", "-d", "d">>),
     Entry("J", <<"a", "-*", "d">>),
     Entry("J", <<"a", "-a", "zz">>),
     Entry("J", <<"d", "{NOPE}/a", "-d">>),
     Entry("/P", <<"?zz", "/L", "-zz", "-L">>),
     Entry("/P", <<"a">>)}

PatternStructures ==
    {st \in UNION {[1..n -> PatternEntries] : n \in 0..MaxEntries} :
        \A i, j \in DOMAIN st : st[i].key = st[j].key => i = j}

\* MakeRelease starts on a project whose entries have several patterns
InitPatterns ==
    /\ attrs = With(BaseAttrs("M"), ExtraAttrs)
    /\ STRUCTURE \in PatternStructures
    /\ fs \in {With(SourceTree, Version123),
                With(With(SourceTree, OldRelease), Version123)}
    /\ pc = "CleanupReleaseFolder"
    /\ err = ""
    /\ err_pattern = ""
    /\ sorted_targets = <<>>
    /\ ei = 0
    /\ pi = 0
    /\ dest_path = ""
    /\ copy_sources = [isNone |-> TRUE, items |-> <<>>]
    /\ drop_patterns = <<>>
    /\ ci = 0
    /\ di = 0
    /\ source = Unbound
    /\ log = {}
    /\ IdlePath
    /\ IdleMacro
    /\ FirstRun

SpecPatterns == InitPatterns /\ [][Next]_vars

\* entries whose keys hold macros: Top expands to a rooted path, A to a
\* relative one
KeyEntries ==
    {Entry("{Top}", <<"a">>),
     Entry("{Top}/s", <<"d", "-d">>),
     Entry("{A}", <<"*", "-a">>),
     Entry("K", <<"a">>),
     Entry("/P", <<"/L">>),
     Entry("/{A}", <<"a", "-a">>)}

KeyStructures ==
    {st \in UNION {[1..n -> KeyEntries] : n \in 0..MaxEntries} :
        \A i, j \in DOMAIN st : st[i].key = st[j].key => i = j}

\* MakeRelease starts on a project whose settings define the attribute Top
\* and use it in the keys of the structure
InitKeys ==
    /\ attrs = With(With(BaseAttrs("M"), ExtraAttrs), [n \in {"Top"} |-> "/T"])
    /\ STRUCTURE \in KeyStructures
    /\ fs \in {With(SourceTree, Version123),
                With(With(SourceTree, OldRelease), Version123)}
    /\ pc = "CleanupReleaseFolder"
    /\ err = ""
    /\ err_pattern = ""
    /\ sorted_targets = <<>>
    /\ ei = 0
    /\ pi = 0
    /\ dest_path = ""
    /\ copy_sources = [isNone |-> TRUE, items |-> <<>>]
    /\ drop_patterns = <<>>
    /\ ci = 0
    /\ di = 0
    /\ source = Unbound
    /\ log = {}
    /\ IdlePath
    /\ IdleMacro
    /\ FirstRun

SpecKeys == InitKeys /\ [][Next]_vars

\* the script is started again after a run that ended, with or without an
\* error: the same settings, the file system as the run left it
Restart ==
    /\ pc \in {"Done", "Exit"}
    /\ runs = 1
    /\ runs' = 2
    /\ first_release' = Subtree(fs, AbsReleaseFolder)
    /\ pc' = "CleanupReleaseFolder"
    /\ err' = ""
    /\ err_pattern' = ""
    /\ sorted_targets' = <<>>
    /\ ei' = 0
    /\ pi' = 0
    /\ dest_path' = ""
    /\ copy_sources' = [isNone |-> TRUE, items |-> <<>>]
    /\ drop_patterns' = <<>>
    /\ ci' = 0
    /\ di' = 0
    /\ source' = Unbound
    /\ log' = {}
    /\ VERSION' = <<>>
    /\ UNCHANGED <<fs, opts, content, code>>
    /\ UNCHANGED <<cfg_vars, path_vars, macro_vars, legacy_vars, net_vars>>

\* a MiniAVC version file
VersionFile(path) ==
    [x \in {path} |-> "{\"VERSION\": {}}"]

\* the builder with the MiniAVC version file unset, in the project root, or
\* in the release folder
VersionFileContexts ==
    {[With(BaseAttrs("M"), ExtraAttrs) EXCEPT !["MINIAVC_VERSION_FILE"] = v] :
         v \in {"", "/M.version", "/R/GameData/M/M.version"}}

\* entries that go through, and some that fail after the first copy
RestartEntries ==
    {Entry("", <<"a">>),
     Entry("/", <<"/L">>),
     Entry("K", <<"*", "-a">>),
     Entry("K", <<"d", "zz">>),
     Entry("K/u", <<"d", "a">>),
     Entry("T", <<"a", "-../x">>)}

RestartStructures ==
    {st \in UNION {[1..n -> RestartEntries] : n \in 0..MaxEntries} :
        \A i, j \in DOMAIN st : st[i].key = st[j].key => i = j}

\* MakeRelease starts on a project with a version file, the release folder
\* absent or left by an earlier run
InitRestart ==
    /\ attrs \in VersionFileContexts
    /\ STRUCTURE \in RestartStructures
    /\ fs \in {With(With(SourceTree, Version123), VersionFile("/w/M.version")),
                With(With(With(SourceTree, OldRelease), Version123),
                     With(VersionFile("/w/M.version"),
                          VersionFile("/w/R/GameData/M/M.version")))}
    /\ pc = "CleanupReleaseFolder"
    /\ err = ""
    /\ err_pattern = ""
    /\ sorted_targets = <<>>
    /\ ei = 0
    /\ pi = 0
    /\ dest_path = ""
    /\ copy_sources = [isNone |-> TRUE, items |-> <<>>]
    /\ drop_patterns = <<>>
    /\ ci = 0
    /\ di = 0
    /\ source = Unbound
    /\ log = {}
    /\ IdlePath
    /\ IdleMacro
    /\ FirstRun

NextRestart ==
    \/ Next
    \/ Restart

SpecRestart == InitRestart /\ [][NextRestart]_vars

\* the responses of Spacedock to a login and to an update of a mod
SessionResponses ==
    {Response(c, b, <<>>) : c \in {200, 400, 401}, b \in {"payload", "error", "text"}}

\* a call of UploadFile by the program that imported SpacedockClient
SpacedockUpload ==
    /\ stage = "idle"
    /\ site = "Spacedock"
    /\ calls < MaxCalls
    /\ \E login_resp \in SessionResponses, upload_resp \in SessionResponses :
           LET Done(res) ==
                   /\ authorized_cookie' = res.authorized_cookie
                   /\ requests' = requests \o res.sent
                   /\ outcome' = [err |-> res.err, value |-> res.value]
           IN  Done(SpacedockUploadFile(fs, job.archive, login_resp, upload_resp))
    /\ calls' = calls + 1
    /\ UNCHANGED <<site, API_TOKEN, API_LOGIN, API_PASS, cached_versions,
                   publish_vars>>
    /\ UNCHANGED <<cfg_vars, run_vars, path_vars, macro_vars, legacy_vars, rerun_vars,
                   release_vars>>

\* a program has imported SpacedockClient, set the login and the password or
\* not, and is about to upload an archive
InitSession ==
    /\ IdleBuilder
    /\ site = "Spacedock"
    /\ API_TOKEN = ""
    /\ API_LOGIN \in {"", "u"}
    /\ API_PASS \in {"", "p"}
    /\ cached_versions = NoVersions
    /\ authorized_cookie = ""
    /\ requests = <<>>
    /\ calls = 0
    /\ outcome = NoOutcome
    /\ stage = "idle"
    /\ choice = ""
    /\ job \in {[NoJob EXCEPT !.archive = a] : a \in {"M_v1.2.3.zip", "M_v1.2.4.zip"}}

NextSession ==
    SpacedockUpload

SpecSession == InitSession /\ [][NextSession]_vars

\* ------------------------------------------------------------------------
\* The safe file system primitives, called one at a time
\* ------------------------------------------------------------------------

\* a call of a primitive: the function, the path (the destination of a
\* copy), the source of a copy, and the caller: the wipe before the
\* assembly, or a step that expects the target to be there
SafeCall(fn, path, src, caller) ==
    [fn |-> fn, pattern |-> path, src |-> src, caller |-> caller]

\* the paths handed to the primitives: in the release folder, in the project
\* outside the release folder, outside the project, with macros
SafePaths ==
    {"/w/R", "/w/R/GameData/M", "/w/R/GameData/M/K/old", "/w/R/GameData/M/K",
     "/w/R/nope", "/w/R/..cache", "/w/R/../x", "R/GameData", "/w/o", "/w",
     "/w/S/a", "/w/S/new", "/", "/x", "/w/R2", "/w/{RELEASE}/n",
     "/w/R/{Up}/o", "{NOPE}"}

SafeCalls ==
    {SafeCall("makedirs", p, "", "") : p \in SafePaths}
    \cup {SafeCall("copy", p, src, "") :
              p \in SafePaths, src \in {"/w/S/a", "/w/S/d", "/w/S/zz", "/x"}}
    \cup {SafeCall("delete", p, "", c) : p \in SafePaths, c \in {"wipe", "artifact"}}

\* the history records of the file system calls of a primitive
Made(ops) ==
    {[op |-> o.op, path |-> o.path, phase |-> q.fn, ei |-> 0, dest |-> "",
      pat |-> ""] : o \in ops}

\* the primitive returns, or raises err
Returned(res) ==
    /\ fs' = res.fs
    /\ log' = log \cup Made(res.ops)
    /\ r' = [done |-> TRUE, err |-> res.err, path |-> ""]

\* one call of __OsSafeMakedirs
SafeMakedirs ==
    /\ q.fn = "makedirs"
    /\ ~r.done
    /\ Returned(OsSafeMakedirs(fs, q.pattern))
    /\ UNCHANGED <<q, pc, err, err_pattern, sorted_targets, ei, pi, dest_path,
                   copy_sources, drop_patterns, ci, di, source>>
    /\ UNCHANGED <<cfg_vars, macro_vars, ext_vars>>

\* one call of __OsSafeCopyToRelease
SafeCopyToRelease ==
    /\ q.fn = "copy"
    /\ ~r.done
    /\ Returned(OsSafeCopyToRelease(fs, q.src, q.pattern))
    /\ UNCHANGED <<q, pc, err, err_pattern, sorted_targets, ei, pi, dest_path,
                   copy_sources, drop_patterns, ci, di, source>>
    /\ UNCHANGED <<cfg_vars, macro_vars, ext_vars>>

\* one call of __OsSafeDeleteFromDest
SafeDeleteFromDest ==
    /\ q.fn = "delete"
    /\ ~r.done
    /\ Returned(OsSafeDeleteFromDest(fs, q.pattern))
    /\ UNCHANGED <<q, pc, err, err_pattern, sorted_targets, ei, pi, dest_path,
                   copy_sources, drop_patterns, ci, di, source>>
    /\ UNCHANGED <<cfg_vars, macro_vars, ext_vars>>

\* a builder with its settings loaded is about to call a primitive; the
\* release folder is absent or left by an earlier run
InitSafe ==
    /\ attrs \in PathContexts
    /\ STRUCTURE = <<>>
    /\ fs \in {SourceTree, With(SourceTree, OldRelease)}
    /\ pc = "Idle"
    /\ err = ""
    /\ err_pattern = ""
    /\ sorted_targets = <<>>
    /\ ei = 0
    /\ pi = 0
    /\ dest_path = ""
    /\ copy_sources = [isNone |-> TRUE, items |-> <<>>]
    /\ drop_patterns = <<>>
    /\ ci = 0
    /\ di = 0
    /\ source = Unbound
    /\ log = {}
    /\ q \in SafeCalls
    /\ r = [done |-> FALSE, err |-> "", path |-> ""]
    /\ IdleMacro
    /\ FirstRun

NextSafe ==
    \/ SafeMakedirs
    \/ SafeCopyToRelease
    \/ SafeDeleteFromDest

SpecSafe == InitSafe /\ [][NextSafe]_vars

\* ------------------------------------------------------------------------
\* make_release-1.0.py: the earlier script
\* ------------------------------------------------------------------------

\* SRC = '..', seen from the folder of the script
SRC ==
    "/w"

\* DEST = '../Release', seen from the folder of the script
DEST ==
    "/w/R"

\* an item of STRUCTURE: a key, and a list of sources or a single string
Folder(key, is_list, sources) ==
    [key |-> key, is_list |-> is_list, sources |-> sources]

\* the items a STRUCTURE of the earlier script is made of
LegacyItems ==
    {Folder("/", TRUE, <<>>),
     Folder("/", FALSE, "/S"),
     Folder("/G", TRUE, <<"/L">>),
     Folder("/G", TRUE, <<"/S/*", "/L">>),
     Folder("/G/K", FALSE, "/S/d"),
     Folder("/G/K", TRUE, <<"/S/zz">>),
     Folder("/g", TRUE, <<"/S/a">>),
     Folder("-/G", FALSE, "/L"),
     Folder("-/G", TRUE, <<"/L">>),
     Folder("-/G/K", FALSE, "/*"),
     Folder("-/", FALSE, "g/a"),
     Folder("-/", FALSE, "d"),
     Folder("", TRUE, <<>>)}

\* the most items a STRUCTURE of the earlier script has
MaxFolders == 3

\* the dicts the earlier script may be given, in their iteration order
LegacyStructures ==
    {st \in UNION {[1..n -> LegacyItems] : n \in 0..MaxFolders} :
        \A i, j \in DOMAIN st : st[i].key = st[j].key => i = j}

\* STRUCTURE[folder]
ItemOf(folder) ==
    CHOOSE item \in {STRUCTURE[i] : i \in DOMAIN STRUCTURE} : item.key = folder

\* a sort key that leaves every key as it is
plain_key(x) ==
    x

\* line 135: lambda x: x[0] != '-' and x or x[1:] + 'Z'
sort_key(x) ==
    IF Ch(x, 1) # "-" THEN x ELSE From(x, 2) \o "Z"

\* one step of the stable sort by sort_key
RECURSIVE InsertFolder(_, _)
InsertFolder(e, seq) ==
    IF Len(seq) = 0 THEN <<e>>
    ELSE IF cmp(sort_key(e), sort_key(seq[Len(seq)])) = "lt"
        THEN Append(InsertFolder(e, SubSeq(seq, 1, Len(seq) - 1)), seq[Len(seq)])
    ELSE Append(seq, e)

\* sorted(STRUCTURE.keys(), key=...)
RECURSIVE SortedFolders(_)
SortedFolders(keys) ==
    IF Len(keys) = 0 THEN <<>>
    ELSE InsertFolder(keys[Len(keys)],
                      SortedFolders(SubSeq(keys, 1, Len(keys) - 1)))

\* os.mkdir(p): only the last component is created; the path is taken as
\* the system resolves it
mkdir(f, p) ==
    LET Make(path) ==
            IF exists(f, path) \/ ~isdir(f, dirname(path))
                THEN FsResult(f, "OSError", {})
            ELSE FsResult(With(f, [a \in {path} |-> "dir"]), "",
                          {[op |-> "mkdir", path |-> path]})
    IN  Make(normpath(p))

\* one call after another: the second is made on the file system the first
\* left, unless the first raised
AndThen(first, Second(_)) ==
    LET Both(second) ==
            FsResult(second.fs, second.err, first.ops \cup second.ops)
    IN  IF first.err # "" THEN first ELSE Both(Second(first.fs))

\* the loop of CopyByRegex over the names of src_dir, pattern '.+'
RECURSIVE CopyNames(_, _, _, _)
CopyNames(f, src_dir, dst_dir, names) ==
    IF Len(names) = 0 THEN FsResult(f, "", {})
    ELSE LET Rest(g) == CopyNames(g, src_dir, dst_dir, Tail(names))
             One(name) ==
                 IF name # "CVS" /\ isfile(f, join(src_dir, name))
                     THEN copy(f, join(src_dir, name), dst_dir)
                 ELSE FsResult(f, "", {})
         IN  AndThen(One(Head(names)), Rest)

\* CopyByRegex(src_dir, dst_dir, '.+'), the names in the order of os.listdir
CopyByRegex(f, src_dir, dst_dir, order) ==
    IF ~isdir(f, src_dir) THEN FsResult(f, "OSError", {})
    ELSE CopyNames(f, src_dir, dst_dir, order)

\* lines 160-168: the sources of a list are copied one by one
RECURSIVE CopyFiles(_, _, _)
CopyFiles(f, dst_path, sources) ==
    IF Len(sources) = 0 THEN FsResult(f, "", {})
    ELSE LET Rest(g) == CopyFiles(g, dst_path, Tail(sources))
             One(file_path) ==
                 IF EndsWith(file_path, "/*")
                     THEN LET src_dir == SRC \o Upto(file_path, Len(file_path) - 2)
                          IN  CopyByRegex(f, src_dir, normpath(dst_path),
                                          CHOOSE o \in Orderings(listdir(f, src_dir)) : TRUE)
                 ELSE IF ~isfile(f, SRC \o file_path)
                     THEN FsResult(f, "IOError", {})
                 ELSE copy(f, SRC \o file_path, normpath(dst_path))
         IN  AndThen(One(Head(sources)), Rest)

\* lines 139-148: the targets of a deletion key are dropped one by one
RECURSIVE DropTargets(_, _)
DropTargets(f, targets) ==
    IF Len(targets) = 0 THEN FsResult(f, "", {})
    ELSE LET Rest(g) == DropTargets(g, Tail(targets))
             One(file_name) ==
                 IF isfile(f, file_name) THEN unlink(f, file_name)
                 ELSE rmtree(f, file_name)
         IN  AndThen(One(Head(targets)), Rest)

\* the history records of the file system calls made for a key
Processed(ops, phase) ==
    {[op |-> o.op, path |-> o.path, phase |-> phase, ei |-> fi, dest |-> "",
      pat |-> folders[fi]] : o \in ops}

\* CleanupReleaseFolder(): shutil.rmtree(DEST, True)
LegacyCleanupReleaseFolder ==
    /\ pc = "CleanupReleaseFolder"
    /\ LET Wiped(res) ==
               /\ fs' = res.fs
               /\ log' = log \cup {[op |-> o.op, path |-> o.path, phase |-> "wipe",
                                    ei |-> 0, dest |-> "", pat |-> ""] : o \in res.ops}
       IN  Wiped(rmtree(fs, DEST))
    /\ pc' = "MakeFoldersStructure"
    /\ UNCHANGED <<err, err_pattern, sorted_targets, ei, pi, dest_path,
                   copy_sources, drop_patterns, ci, di, source>>
    /\ UNCHANGED <<cfg_vars, path_vars, macro_vars, rerun_vars, release_vars,
                   net_vars, legacy_vars>>

\* line 135: the keys are sorted; x[0] of an empty key raises IndexError
SortFolders ==
    /\ pc = "MakeFoldersStructure"
    /\ IF \E i \in DOMAIN STRUCTURE : STRUCTURE[i].key = ""
           THEN Die("IndexError", "") /\ UNCHANGED <<folders, fi>>
       ELSE /\ folders' = SortedFolders([i \in DOMAIN STRUCTURE |-> STRUCTURE[i].key])
            /\ fi' = 1
            /\ pc' = "Folder"
            /\ UNCHANGED <<err, err_pattern>>
    /\ UNCHANGED <<fs, sorted_targets, ei, pi, dest_path, copy_sources,
                   drop_patterns, ci, di, source, log>>
    /\ UNCHANGED <<cfg_vars, path_vars, macro_vars, rerun_vars, release_vars,
                   net_vars>>

\* what a step of the loop over folders leaves alone
FolderFrame ==
    /\ UNCHANGED <<sorted_targets, ei, pi, dest_path, copy_sources,
                   drop_patterns, ci, di, source, folders>>
    /\ UNCHANGED <<cfg_vars, path_vars, macro_vars, rerun_vars, release_vars,
                   net_vars>>

\* the call of a loop step is over: the run goes on, or dies of the error
FolderDone(res, phase) ==
    /\ fs' = res.fs
    /\ log' = log \cup Processed(res.ops, phase)
    /\ IF res.err # "" THEN Die(res.err, folders[fi]) /\ UNCHANGED fi
       ELSE fi' = fi + 1 /\ UNCHANGED <<pc, err, err_pattern>>

\* lines 138-149: a key that starts with '-' drops what its pattern matches
DropFolder ==
    /\ pc = "Folder"
    /\ fi <= Len(folders)
    /\ StartsWith(folders[fi], "-")
    /\ LET Drop(item) ==
               IF item.is_list
                   THEN FolderDone(FsResult(fs, "TypeError", {}), "drop")
               ELSE \E order \in Orderings(glob(fs, DEST \o From(folders[fi], 2)
                                                     \o item.sources)) :
                        FolderDone(DropTargets(fs, order), "drop")
       IN  Drop(ItemOf(folders[fi]))
    /\ FolderFrame

\* lines 151-168: a folder is copied as a whole, or made and filled
CopyFolder ==
    /\ pc = "Folder"
    /\ fi <= Len(folders)
    /\ ~StartsWith(folders[fi], "-")
    /\ LET Fill(g) == CopyFiles(g, DEST \o folders[fi], ItemOf(folders[fi]).sources)
           Copy(item) ==
               IF ~item.is_list
                   THEN IF ~isdir(fs, SRC \o item.sources)
                            THEN FolderDone(FsResult(fs, "OSError", {}), "copy")
                        ELSE FolderDone(copytree(fs, SRC \o item.sources,
                                                 normpath(DEST \o folders[fi])),
                                        "copy")
               ELSE FolderDone(AndThen(mkdir(fs, DEST \o folders[fi]), Fill), "copy")
       IN  Copy(ItemOf(folders[fi]))
    /\ FolderFrame

\* the loop over folders is over
EndFolders ==
    /\ pc = "Folder"
    /\ fi > Len(folders)
    /\ pc' = "Done"
    /\ UNCHANGED <<fs, err, err_pattern, log, fi>>
    /\ FolderFrame

\* the earlier script is about to wipe the release folder
InitLegacy ==
    /\ attrs = ClassAttrs
    /\ STRUCTURE \in LegacyStructures
    /\ fs \in {SourceTree, With(SourceTree, OldRelease)}
    /\ pc = "CleanupReleaseFolder"
    /\ err = ""
    /\ err_pattern = ""
    /\ sorted_targets = <<>>
    /\ ei = 0
    /\ pi = 0
    /\ dest_path = ""
    /\ copy_sources = [isNone |-> TRUE, items |-> <<>>]
    /\ drop_patterns = <<>>
    /\ ci = 0
    /\ di = 0
    /\ source = Unbound
    /\ log = {}
    /\ IdlePath
    /\ IdleMacro
    /\ FirstRun

NextLegacy ==
    \/ LegacyCleanupReleaseFolder
    \/ SortFolders
    \/ DropFolder
    \/ CopyFolder
    \/ EndFolders

SpecLegacy == InitLegacy /\ [][NextLegacy]_vars

\* ------------------------------------------------------------------------
\* Properties
\* ------------------------------------------------------------------------

\* the root a resolved path must stay in: the project root for a source, the
\* GameData folder of the release for a destination
DesignatedRoot(fn) ==
    IF fn = "src" THEN normpath(ABS_PROJECT_ROOT)
    ELSE normpath(ABS_PROJECT_ROOT \o "/" \o attrs["RELEASE"] \o "/GameData")

\* the release folder
ReleaseRoot ==
    normpath(ABS_PROJECT_ROOT \o "/" \o attrs["RELEASE"])

\* the text a resolver call joins, macros expanded, before it is normalized
Joined(call) ==
    IF call.fn = "src"
        THEN JoinParts(ABS_PROJECT_ROOT, call.pattern, attrs["SOURCE"])
    ELSE JoinParts(DesignatedRoot("dest"), call.pattern,
                   attrs["RELEASE_MOD_FOLDER"])

\* the joined path of a call exists and lies outside the call's root
JoinedOutside(call) ==
    /\ Joined(call).err = ""
    /\ ~Under(normpath(Joined(call).text), DesignatedRoot(call.fn))

\* C1: a call of ResolveSourcePath or ResolveDestPath that returns a path
\* returns a normalized path that is its designated root or lies beneath it;
\* when the joined path lies outside the root the call fails, and fails with
\* PathEscapeError when unresolved paths are allowed
C1_Containment ==
    r.done =>
        /\ r.err = "" => /\ r.path = normpath(r.path)
                         /\ Under(r.path, DesignatedRoot(q.fn))
        /\ JoinedOutside(q) => /\ r.err # ""
                               /\ q.allow_unresolved => r.err = "PathEscapeError"

\* a call with unresolved paths allowed, whose pattern holds an unset macro
\* and leads outside the root, was refused
C1_Witness ==
    /\ r.done
    /\ q.allow_unresolved
    /\ Contains(q.pattern, "{ARCHIVE_DEST}")
    /\ JoinedOutside(q)
    /\ r.err = "PathEscapeError"

\* C2 (as stated): every path a step of Assemble creates, copies to or
\* deletes is the release folder or lies beneath it
C2_MutationsInsideRelease ==
    \A rec \in log : rec.phase # "wipe" => Under(rec.path, ReleaseRoot)

\* x is before y in the order of byte strings
LexLess(x, y) ==
    \E k \in 0..Len(x) :
        /\ k <= Len(y)
        /\ Upto(x, k) = Upto(y, k)
        /\ \/ k = Len(x) /\ k < Len(y)
           \/ k < Len(x) /\ k < Len(y) /\ Ord(Ch(x, k + 1)) < Ord(Ch(y, k + 1))

\* the processing order of two keys: rooted before relative, bytewise within
\* a group
KeyBefore(x, y) ==
    IF StartsWith(x, "/") # StartsWith(y, "/") THEN StartsWith(x, "/")
    ELSE LexLess(x, y)

\* a and b hold the same entries
SameEntries(a, b) ==
    /\ Len(a) = Len(b)
    /\ \A i \in DOMAIN a : \E j \in DOMAIN b : a[i] = b[j]

\* C3: once sorted, the entries to process are the entries of the mapping
\* with every rooted key before every relative one and each group in
\* lexicographic order, whatever order they were declared in; the entries
\* are taken in that order, so what was written or deleted so far was for
\* the entry in process or an earlier one
C3_ProcessingOrder ==
    pc \notin {"CleanupReleaseFolder", "ExtractVersion",
               "UpdateVersionInSources", "MakeFoldersStructure"} =>
        /\ SameEntries(sorted_targets, STRUCTURE)
        /\ \A i, j \in DOMAIN sorted_targets :
               i < j => KeyBefore(sorted_targets[i].key, sorted_targets[j].key)
        /\ ei >= 1
        /\ \A rec \in log :
               rec.phase # "wipe" =>
                   /\ rec.ei \in 1..ei
                   /\ rec.ei \in DOMAIN sorted_targets
                   /\ rec.dest = MakeDestPath(sorted_targets[rec.ei].key, FALSE).path

\* a mapping declared with a relative key first and a rooted key second, the
\* relative one the smaller byte string, was assembled: the rooted entry
\* wrote first
C3_Witness ==
    /\ pc = "Done"
    /\ Len(STRUCTURE) = 2
    /\ ~StartsWith(STRUCTURE[1].key, "/")
    /\ StartsWith(STRUCTURE[2].key, "/")
    /\ LexLess(STRUCTURE[1].key, STRUCTURE[2].key)
    /\ sorted_targets[1] = STRUCTURE[2]
    /\ \E a, b \in log : a.ei = 1 /\ b.ei = 2

\* C4 (as stated): a folder made during Assemble that is on disk has a file
\* or a folder copied into it or beneath it
C4_LazyFolders ==
    \A rec \in log :
        (rec.op = "mkdir" /\ isdir(fs, rec.path)) =>
            \E c \in log : c.op \in {"copy", "copytree"} /\ Under(c.path, rec.path)

\* the entry has one pattern, it is optional and matches nothing
OptionalOnlyNoMatch(e) ==
    /\ Len(e.pats) = 1
    /\ Ch(e.pats[1], 1) = "?"
    /\ MakeSrcPath(From(e.pats[1], 2), TRUE).err = ""
    /\ glob(fs, MakeSrcPath(From(e.pats[1], 2), TRUE).path) = {}

\* C5 (as stated): the run does not end in an error at an entry whose
\* destination resolves and whose only pattern is optional and matches nothing
C5_OptionalTolerated ==
    ~(/\ pc = "Exit"
      /\ ei \in DOMAIN sorted_targets
      /\ MakeDestPath(sorted_targets[ei].key, FALSE).err = ""
      /\ OptionalOnlyNoMatch(sorted_targets[ei]))

\* C6 (as stated): what a deletion pattern removes is a direct child of the
\* entry's destination folder, never the folder itself
C6_DeletionScope ==
    \A rec \in log :
        rec.phase = "drop" =>
            /\ rec.path # rec.dest
            /\ dirname(rec.path) = rec.dest

\* the path of a deletion pattern relative to the folder of its entry; "."
\* also when one of the two does not resolve
DropRel(key, pattern) ==
    IF MakeDestPath(key, FALSE).err # ""
       \/ MakeDestPath(join(key, pattern), FALSE).err # ""
    THEN "."
    ELSE relpath(MakeDestPath(join(key, pattern), FALSE).path,
                 MakeDestPath(key, FALSE).path)

\* a relative path with a directory separator or an upward traversal
OutOfScope(rel) ==
    Contains(rel, "/") \/ rel = ".." \/ StartsWith(rel, "../")

\* C7: a deletion pattern whose resolved path, relative to the entry's
\* folder, holds a separator or an upward traversal is never passed: nothing
\* was deleted for such a pattern, the patterns applied so far are not of
\* that kind, and a run that ended at such a pattern ended with
\* InvalidDeletionScopeError
C7_DeletionScopeRejected ==
    /\ \A rec \in log :
           rec.phase = "drop" =>
               ~OutOfScope(DropRel(sorted_targets[rec.ei].key, rec.pat))
    /\ pc = "Drop" =>
           \A k \in 1..(di - 1) :
               ~OutOfScope(DropRel(sorted_targets[ei].key, drop_patterns[k]))
    /\ (/\ pc = "Exit"
        /\ StartsWith(err_pattern, "-")
        /\ OutOfScope(DropRel(sorted_targets[ei].key, From(err_pattern, 2))))
           => err = "InvalidDeletionScopeError"

\* the run ended at a deletion pattern that names a file inside a copied
\* subfolder; the file is still there
C7_Witness ==
    /\ pc = "Exit"
    /\ err = "InvalidDeletionScopeError"
    /\ err_pattern = "-d/f"
    /\ isfile(fs, join(dest_path, "d/f"))
    /\ \A rec \in log : rec.phase # "drop"

\* the call of __ParseMacros is over: it returned, or it ended the run
MacroFinished ==
    m_stack = <<>> \/ m_err # ""

\* macro A is {B} and macro B is {A}, and one of them is to be resolved
MutualCycle ==
    /\ attrs["A"] = "{B}"
    /\ attrs["B"] = "{A}"
    /\ m_tpl \in {"{A}", "{B}"}

\* C8: every call of the macro resolver comes to an end, and with A and B
\* referring to each other, resolving either one ends with CycleError
C8_MacroTermination ==
    /\ <>MacroFinished
    /\ [](MutualCycle => <>(m_err = "CycleError"))

\* with A and B referring to each other the resolver ended with CycleError
\* after expanding both
C8_Witness ==
    /\ MutualCycle
    /\ m_err = "CycleError"
    /\ Len(m_parents) = 2

\* C9 (as stated): the run does not end at an optional source pattern
\* because of an unknown or an unset macro
C9_OptionalMacroSkipped ==
    ~(/\ pc = "Exit"
      /\ StartsWith(err_pattern, "?")
      /\ err \in {"UnknownMacroError", "UnresolvedPathError"})

\* C10 (as stated): a call that does not allow unresolved paths and whose
\* joined text holds the sentinel of an unset macro fails with
\* UnresolvedPathError
C10_UnresolvedRefused ==
    (/\ r.done
     /\ ~q.allow_unresolved
     /\ Joined(q).err = ""
     /\ Contains(Joined(q).text, NullMark))
        => r.err = "UnresolvedPathError"

\* the pattern the scan is about to read
ScannedPattern ==
    sorted_targets[ei].pats[pi]

\* a pattern is about to be scanned and is not empty
Scanning ==
    /\ pc = "Pattern"
    /\ pi <= Len(sorted_targets[ei].pats)
    /\ ScannedPattern # ""

\* the step treats the pattern as a copy pattern that has to match: nothing is
\* recorded for deletion, and either the run ends or sources were found
HandledAsPlain ==
    /\ drop_patterns' = drop_patterns
    /\ \/ pc' = "Exit"
       \/ /\ ~copy_sources'.isNone
          /\ Len(copy_sources'.items) > Len(copy_sources.items)

\* the step treats the rest of the pattern as an optional copy pattern:
\* nothing is recorded for deletion and a pattern without matches is passed
HandledAsOptional ==
    /\ drop_patterns' = drop_patterns
    /\ err' # "NoMatchError"

\* the step records the rest of the pattern for deletion, as it is written
HandledAsDrop ==
    /\ drop_patterns' = Append(drop_patterns, From(ScannedPattern, 2))
    /\ copy_sources' = copy_sources
    /\ pc' = "Pattern"

\* C11: the modifier of a source pattern is decided by the first character of
\* the raw pattern alone: a pattern starting with neither '?' nor '-' is a
\* plain copy pattern that has to match whatever its macros expand to, and
\* after one modifier character the rest is not read as a modifier again
C11_RawModifier ==
    [][Scanning =>
          IF Ch(ScannedPattern, 1) = "?" THEN HandledAsOptional
          ELSE IF Ch(ScannedPattern, 1) = "-" THEN HandledAsDrop
          ELSE HandledAsPlain]_vars

\* an entry whose only pattern is a macro expanding to '-a' has stopped the
\* run because nothing matched: the pattern was a copy pattern
C11_Witness ==
    /\ pc = "Exit"
    /\ err = "NoMatchError"
    /\ err_pattern = "{D}"
    /\ drop_patterns = <<>>

\* C12: wiping and assembling twice with the same mapping, macro context and
\* source tree leaves the same release tree both times: the same paths with
\* the same content, in whatever order glob lists the matches of a pattern
C12_Idempotent ==
    (runs = 2 /\ pc = "Done") => Subtree(fs, AbsReleaseFolder) = first_release

\* the run is over, with or without an error
RunOver ==
    pc \in {"Done", "Exit"}

\* the release holds LICENSE.md at its top level (the release folder or its
\* GameData folder), the three .cfg files under Parts, and no old.bak
PartsAssembled ==
    /\ isfile(fs, "/w/R/LICENSE.md") \/ isfile(fs, "/w/R/GameData/LICENSE.md")
    /\ \A n \in {"a.cfg", "b.cfg", "c.cfg"} :
           isfile(fs, "/w/R/GameData/M/Parts/" \o n)
    /\ ~exists(fs, "/w/R/GameData/M/Parts/old.bak")

\* C13: with the mapping {"/": ["LICENSE.md"], "Parts": ["Parts/*.cfg"],
\* "-Parts": ["*.bak"]}, LICENSE.md and three .cfg files under Parts in the
\* project root and a stray Parts/old.bak in the destination, the assembler
\* finishes without error, LICENSE.md is at the top level of the release, the
\* three .cfg files are under Parts and old.bak is gone
C13_PartsScenario ==
    (/\ {STRUCTURE[i] : i \in DOMAIN STRUCTURE} = KeyedDeletion
     /\ attrs["SOURCE"] = "."
     /\ RunOver)
        => (pc = "Done" /\ PartsAssembled)

\* C14: a run that ends because of a fatal error (a compile script that
\* returned success without producing the binary included) ends with a
\* non-zero exit status, and a run in which every step succeeded ends with
\* exit status zero
C14_ExitStatus ==
    Terminated =>
        IF pc = "Finished" THEN ExitStatus = 0 ELSE ExitStatus # 0

\* the assembler is inside the loop over the entries
InEntries ==
    pc \in {"Entry", "Pattern", "Copy", "Drop"}

\* the paths that are not the same before and after the step
Changed ==
    {p \in DOMAIN fs \cup DOMAIN fs' :
        ~(p \in DOMAIN fs /\ p \in DOMAIN fs' /\ fs[p] = fs'[p])}

\* a file system call of the entry being processed was made on p or on a
\* folder above p
Touched(p) ==
    \E o \in log' : o.ei = ei /\ (o.path = p \/ Under(p, o.path))

\* C15: a fatal error while entry N is processed ends the run at once with a
\* non-zero status: no step of a later entry is executed, nothing is rolled
\* back (the failing step changes no path but those the calls of entry N made
\* before the error, so what the earlier entries did stays on disk), no step
\* follows the exit, and no error is raised without ending the run
C15_FailFast ==
    [][/\ pc # "Exit"
       /\ (err' # "" => pc' = "Exit")
       /\ (InEntries /\ pc' = "Exit") =>
              /\ ei' = ei
              /\ log \subseteq log'
              /\ \A o \in log' : o.ei <= ei
              /\ \A p \in Changed : Touched(p)
              /\ ExitStatus' # 0]_vars

\* the second entry failed after a copy of the first one, which is on disk
C15_Witness ==
    /\ pc = "Exit"
    /\ ei = 2
    /\ \E o \in log : o.ei = 1 /\ o.phase = "copy" /\ o.op = "copy"
                          /\ isfile(fs, o.path)

\* the path of the archive __Step_MakePackage computes: the release name
\* under ARCHIVE_DEST in the project root, with the extension .zip
ArchiveName ==
    MakeSrcPath(join(join("/", attrs["ARCHIVE_DEST"]), ReleaseName.out),
                FALSE).path \o ".zip"

\* the release name and the path of the archive are computed without error
ArchiveNamed ==
    /\ ReleaseName.err = ""
    /\ MakeSrcPath(join(join("/", attrs["ARCHIVE_DEST"]), ReleaseName.out),
                   FALSE).err = ""

\* the archive step of a run with packaging requested
Packaging ==
    pc = "Done" /\ opts.p /\ ArchiveNamed

\* the step ends with an archive of the assembled GameData folder
NewArchive ==
    /\ pc' = "Finished"
    /\ isfile(fs', ArchiveName)
    /\ fs'[ArchiveName] = Archive(fs, normpath(GetAbsReleaseFolder.path), "GameData")

\* C18: with packaging requested, an existing archive of the computed name
\* makes the run fail and stays as it is when overwrite_existing is false,
\* and is replaced by a new archive when overwrite_existing is true; when
\* there is no such archive one is created in both modes
C18_Overwrite ==
    [][Packaging =>
           IF exists(fs, ArchiveName) /\ ~opts.o
               THEN pc' = "Exit" /\ fs' = fs
           ELSE NewArchive]_vars

\* JSON_SCHEMA_VERSION is present and reads major.minor with the supported
\* major part and a minor part not above the supported one
SchemaSupported ==
    /\ content.schema \notin {Absent, ""}
    /\ LET Two(parts) ==
               /\ Len(parts) = 2
               /\ int(parts[1]).ok /\ int(parts[1]).value = 1
               /\ int(parts[2]).ok /\ int(parts[2]).value <= 1
       IN  Two(StrSplit(content.schema, "."))

\* main is about to load a settings file that can be read
Loading ==
    pc = "main" /\ opts.mode = "j" /\ content.found

\* the file is accepted: all its settings are applied and the build starts
Accepted ==
    /\ pc' = "MakeRelease"
    /\ attrs' = With(attrs, content.values)
    /\ STRUCTURE' = content.structure

\* the process ends with no setting applied and no build step made
AbortedUntouched ==
    /\ pc' = "Exit"
    /\ ExitStatus' # 0
    /\ attrs' = attrs /\ STRUCTURE' = STRUCTURE
    /\ fs' = fs /\ log' = log

\* C19: LoadSettingsFromJson accepts a settings file if and only if
\* JSON_SCHEMA_VERSION is present, its major part is the supported one and
\* its minor part is not above the supported one (1.1); in every other case
\* the process aborts before any setting is applied and any build step runs
C19_SchemaGate ==
    [][Loading => IF SchemaSupported THEN Accepted ELSE AbortedUntouched]_vars

\* C19 as amended: a file whose schema version is supported as above is
\* accepted if and only if all its keys are known settings; with an unknown
\* key the process aborts before any build step, some settings possibly
\* applied; with any other schema version it aborts before any setting is
\* applied and any build step runs
C19_SchemaGateThenKeys ==
    [][Loading =>
           IF ~SchemaSupported THEN AbortedUntouched
           ELSE IF DOMAIN content.values \subseteq JSON_VALUES THEN Accepted
           ELSE /\ pc' = "Exit" /\ err' = "UnknownKeyError" /\ ExitStatus' # 0
                /\ fs' = fs /\ log' = log]_vars

\* a file with a supported schema version and an unknown key was refused
\* after one of its settings had been applied
C19_Witness ==
    /\ pc = "Exit"
    /\ err = "UnknownKeyError"
    /\ content.schema = "1.1"
    /\ attrs["RELEASE"] = "x"

\* the request at position i asked for the versions and was answered with a
\* list
AnsweredVersions(i) ==
    /\ requests[i].kind = "versions"
    /\ requests[i].code = 200
    /\ requests[i].body = "payload"

\* C16: across any sequence of GetKSPVersions calls of CurseForgeClient and
\* of SpacedockClient the server is asked for the list of versions at most
\* once: after a request that got a list, empty or not, no further request
\* for the versions is sent
C16_VersionsCache ==
    \A i, j \in DOMAIN requests :
        (i < j /\ AnsweredVersions(i)) => requests[j].kind # "versions"

\* the requests the step sent
Sent ==
    SubSeq(requests', Len(requests) + 1, Len(requests'))

\* the step is a call of CreateRelease
Creating ==
    site = "GitHub" /\ stage = "idle" /\ calls' = calls + 1

\* the last request of the step got an error response of the API
ApiError ==
    Sent # <<>> /\ Sent[Len(Sent)].code # 200

\* C20: CreateRelease fails with BadRequestError when a listed file is
\* missing or its type cannot be determined, with AuthorizationRequiredError
\* and no request sent when no API token is set, with BadCredentialsError
\* when the API refuses the token (HTTP 401 or 403), and with
\* BadResponseError on any other error response of the API
C20_ErrorClasses ==
    [][Creating =>
           IF CheckFiles(fs, job.files) # ""
               THEN outcome'.err = "BadRequestError"
           ELSE IF API_TOKEN = ""
               THEN outcome'.err = "AuthorizationRequiredError" /\ Sent = <<>>
           ELSE IF ApiError /\ Sent[Len(Sent)].code \in {401, 403}
               THEN outcome'.err = "BadCredentialsError"
           ELSE IF ApiError
               THEN outcome'.err = "BadResponseError"
           ELSE TRUE]_vars


\* the requests that publish: the upload of a file, the creation of a release
\* and the upload of its assets, the login
Publishing(req) ==
    req.kind \in {"upload", "release", "asset", "login"}

\* C17: in each publish script a request that publishes is sent only after
\* the confirmation prompt was answered with y or Y; every other answer ends
\* the script with a non-zero status, and no upload, release or login request
\* is sent in the run
C17_ConfirmedUpload ==
    /\ (\E i \in DOMAIN requests : Publishing(requests[i]))
           => choice # Unbound /\ job.answer \in {"y", "Y"}
    /\ (choice # Unbound /\ job.answer \notin {"y", "Y"})
           => /\ stage = "exit"
              /\ PublishStatus # 0
              /\ \A i \in DOMAIN requests : ~Publishing(requests[i])

C17_Witness ==
    /\ stage = "exit"
    /\ job.answer = "yes"
    /\ choice = "yes"
    /\ requests # <<>>
    /\ PublishStatus = 255


\* the deletion patterns of an entry in the order they are declared
RECURSIVE DeclaredDrops(_)
DeclaredDrops(pats) ==
    IF pats = <<>> THEN <<>>
    ELSE IF Head(pats) # "" /\ Ch(Head(pats), 1) = "-"
        THEN <<From(Head(pats), 2)>> \o DeclaredDrops(Tail(pats))
    ELSE DeclaredDrops(Tail(pats))

\* the calls a step adds to the history
NewCalls ==
    log' \ log

\* C21: within one entry a deletion pattern is applied only after all copies
\* of the entry are completed, the deletion patterns are applied one by one
\* in their declared order, and no copy of the entry follows one of its
\* deletions
C21_DropsAfterCopies ==
    [][/\ (pc = "Drop" /\ pc' # "Entry") =>
              /\ (copy_sources.isNone \/ ci > Len(copy_sources.items))
              /\ pi > Len(sorted_targets[ei].pats)
              /\ drop_patterns = DeclaredDrops(sorted_targets[ei].pats)
              /\ \A o \in NewCalls : o.phase = "drop" /\ o.pat = drop_patterns[di]
              /\ di' \in {di, di + 1}
              /\ di' = di => pc' = "Exit"
       /\ (\E o \in NewCalls : o.phase = "drop") => pc = "Drop"
       /\ (fs' # fs /\ pc \in {"Entry", "Pattern", "Copy", "Drop"}) =>
              pc \in {"Copy", "Drop"}
       /\ (\E o \in NewCalls : o.phase = "copy") =>
              /\ pc = "Copy"
              /\ ~\E o \in log : o.ei = ei /\ o.phase = "drop"]_vars

\* a deletion pattern removed a file the same entry copied, the second
\* deletion pattern of the entry being applied after the first
C21_Witness ==
    /\ pc = "Drop"
    /\ di = 3
    /\ drop_patterns = <<"d", "a">>
    /\ \E c \in log, d \in log :
           /\ c.ei = ei /\ d.ei = ei
           /\ c.phase = "copy" /\ c.op = "copy"
           /\ d.phase = "drop" /\ d.op = "unlink"
           /\ c.path = d.path
           /\ ~exists(fs, c.path)


\* the paths at or beneath the release folder
ReleaseTree ==
    {p \in DOMAIN fs : Under(p, AbsReleaseFolder)}

Calling ==
    ~r.done /\ r'.done

\* C23 (as stated): a primitive whose check of the path fails changes
\* nothing, and no call of MakeDirs or Delete, whatever path it is given,
\* creates or removes a path outside the release folder
C23_PrimitivesInRelease ==
    [][Calling =>
           /\ r'.err = "RuntimeError" => fs' = fs
           /\ q.fn \in {"makedirs", "delete"} =>
                  \A o \in log' : Under(o.path, AbsReleaseFolder)]_vars


\* the path a call of Delete is about passes the check against the release
\* folder and does not exist
TargetAbsent ==
    LET Absent_(t) == t.err = "" /\ ~exists(fs, t.path)
        In(release) == release.err = "" /\ Absent_(CheckChroot(q.pattern, release.path))
    IN  In(GetAbsReleaseFolder)

\* C24 (as stated): Delete called by the wipe before the assembly for a path
\* that does not exist returns without an error and changes nothing; called
\* for a path that is expected to exist and does not, it raises an error
C24_DeleteModes ==
    [][(Calling /\ q.fn = "delete" /\ TargetAbsent) =>
           IF q.caller = "wipe" THEN r'.err = "" /\ fs' = fs
           ELSE r'.err # ""]_vars


\* the step is a call of UploadFile of SpacedockClient
Uploading ==
    site = "Spacedock" /\ stage = "idle" /\ calls' = calls + 1

\* the step sent a login request and the server refused it
LoginRefused ==
    /\ Sent # <<>>
    /\ Sent[1].kind = "login"
    /\ Sent[1].body = "error"

\* C25 (as stated): the cookie is created once; a call made with a cookie
\* stored sends no login request and keeps the cookie; a call made without
\* the login or the password, or whose login the server refuses, raises
\* BadCredentialsError, leaves the cookie unset and sends no update request
C25_Session ==
    [][Uploading =>
           /\ authorized_cookie # "" =>
                  /\ authorized_cookie' = authorized_cookie
                  /\ \A i \in DOMAIN Sent : Sent[i].kind # "login"
           /\ (authorized_cookie = "" /\ EncodeFormData(fs, job.archive) = ""
               /\ (API_LOGIN = "" \/ API_PASS = "" \/ LoginRefused)) =>
                  /\ outcome'.err = "BadCredentialsError"
                  /\ authorized_cookie' = ""
                  /\ \A i \in DOMAIN Sent : Sent[i].kind # "upload"]_vars


\* the macros of the context a text names
Mentions(text) ==
    {k \in DOMAIN attrs : Contains(text, "{" \o k \o "}")}

\* the macros named by the values of the macros of a set
Step(S) ==
    UNION {Mentions(attrs[k]) : k \in S}

\* the macros a text leads to: those it names and those their values lead to
LeadsTo(text) ==
    LET One == Mentions(text)
        Two == One \cup Step(One)
        Three == Two \cup Step(Two)
    IN  Three \cup Step(Three)

\* no macro the template leads to leads to itself
AcyclicTemplate ==
    \A k \in LeadsTo(m_tpl) : k \notin LeadsTo(attrs[k])

\* C26 (as stated): a template whose macros do not lead to themselves is
\* resolved without CycleError, however often a macro occurs in it, and
\* '{A}/{A}.dll' with A = 'x' resolves to 'x/x.dll'
C26_SiblingsResolve ==
    /\ AcyclicTemplate => m_err # "CycleError"
    /\ (m_tpl = "{A}/{A}.dll" /\ attrs["A"] = "x" /\ MacroFinished) =>
           m_err = "" /\ m_out = "x/x.dll"


\* C27 (as stated): a call of ResolveSourcePath or ResolveDestPath is refused
\* for leaving its root only when the path it joined lies outside the root; a
\* joined path that is the root or lies beneath it, such as one whose first
\* segment below the root is '..c', draws no PathEscapeError
C27_ExactContainment ==
    (r.done /\ q.fn \in {"src", "dest"} /\ r.err = "PathEscapeError") =>
        JoinedOutside(q)


\* the history holds a copy or a deletion of the entry in work
EntryMutated ==
    \E o \in log : o.ei = ei /\ o.phase \in {"copy", "drop"}

\* the pattern in work is a plain one that resolves and matches nothing
PlainWithoutMatch ==
    LET Empty(src_pattern, pattern) ==
            /\ Modifier(src_pattern) \notin {"?", "-"}
            /\ pattern.err = ""
            /\ glob(fs, pattern.path) = {}
        Of(src_pattern) ==
            src_pattern # "" /\ Empty(src_pattern, MakeSrcPath(src_pattern, FALSE))
    IN  /\ pi <= Len(sorted_targets[ei].pats)
        /\ Of(sorted_targets[ei].pats[pi])

\* C28: while the patterns of an entry are scanned nothing is copied or
\* deleted and the entry has no copy or deletion in the history; a plain
\* pattern without a match, or one that does not resolve, ends the run right
\* there; the copy loop is entered, and a copy or deletion of the entry is
\* made, only with every pattern of the entry scanned
C28_ValidatedBeforeMutation ==
    [][/\ pc = "Pattern" =>
              /\ fs' = fs
              /\ log' = log
              /\ ~EntryMutated
              /\ pc' \in {"Pattern", "Copy", "Exit"}
              /\ pc' = "Copy" => pi > Len(sorted_targets[ei].pats)
              /\ PlainWithoutMatch =>
                     /\ pc' = "Exit"
                     /\ err' = "NoMatchError"
                     /\ err_pattern' = sorted_targets[ei].pats[pi]
              /\ (pc' = "Pattern" /\ pi' = pi) => FALSE
              /\ err' # "" => pc' = "Exit"
       /\ (\E o \in NewCalls : o.phase \in {"copy", "drop"}) =>
              /\ pi > Len(sorted_targets[ei].pats)
              /\ \A o \in NewCalls : o.ei = ei]_vars

\* the run ended on the last pattern 'zz' of an entry whose first pattern had
\* matched a source and whose second is a deletion: nothing of the entry was
\* copied or deleted
C28_Witness ==
    /\ pc = "Exit"
    /\ err = "NoMatchError"
    /\ err_pattern = "zz"
    /\ sorted_targets[ei].pats = <<"a", "-a", "zz">>
    /\ pi = 3
    /\ copy_sources.items # <<>>
    /\ drop_patterns = <<"a">>
    /\ ~EntryMutated


\* the destination of a key is counted from the GameData folder of the
\* release, not from the package subfolder: what __MakeDestPath joins for it
\* leaves the subfolder out
CountedFromTop(key) ==
    LET Plain(parts, expanded) ==
            /\ parts.err = ""
            /\ parts.text = StrJoin(<<DesignatedRoot("dest"), expanded.out>>, "/")
    IN  Plain(JoinParts(DesignatedRoot("dest"), key, attrs["RELEASE_MOD_FOLDER"]),
              ParseMacros(key))

\* C29 (as stated): in the order the entries are processed, every entry whose
\* destination is counted from the top folder comes before every entry whose
\* destination is counted from the package subfolder, keys with macros
\* included
C29_RootedGroupFirst ==
    \A i, j \in DOMAIN sorted_targets :
        (i < j /\ CountedFromTop(sorted_targets[j].key)) =>
            CountedFromTop(sorted_targets[i].key)

\* the folder of key x lies strictly beneath the folder of key k
Beneath(x, k) ==
    /\ normpath(DEST \o x) # normpath(DEST \o k)
    /\ Under(normpath(DEST \o x), normpath(DEST \o k))

\* the key at position i is a copy key
CopyKey(i) ==
    ~StartsWith(folders[i], "-")

\* the key being processed is the deletion key of k
Dropping(k) ==
    StartsWith(folders[fi], "-") /\ From(folders[fi], 2) = k

\* every copy key whose folder is an ancestor of the folder of the copy key
\* being processed has been processed
AncestorsFirst ==
    \A i \in DOMAIN folders :
        (CopyKey(fi) /\ CopyKey(i) /\ Beneath(folders[fi], folders[i])) => i < fi

\* C30 (as stated): when a deletion key '-K' is processed, the copy key K and
\* every copy key whose folder lies beneath the folder of K have been
\* processed; when a copy key is processed, every copy key of an ancestor
\* folder has been processed
C30_Original ==
    (pc = "Folder" /\ fi <= Len(folders)) =>
        /\ \A i \in DOMAIN folders :
               (CopyKey(i) /\ (Dropping(folders[i])
                               \/ \E k \in {From(folders[fi], 2)} :
                                      Dropping(k) /\ Beneath(folders[i], k))) =>
                   i < fi
        /\ AncestorsFirst

\* C30 (amended): the same, for the deletion keys '-K' whose K does not end
\* with the separator; a key such as '-/' of the root key '/' may be
\* processed before copy keys of folders beneath K
C30_LegacyOrder ==
    (pc = "Folder" /\ fi <= Len(folders)) =>
        /\ \A i \in DOMAIN folders :
               (CopyKey(i) /\ (Dropping(folders[i])
                               \/ \E k \in {From(folders[fi], 2)} :
                                      /\ Dropping(k)
                                      /\ ~EndsWith(k, "/")
                                      /\ Beneath(folders[i], k))) =>
                   i < fi
        /\ AncestorsFirst

\* the run made '/', then made '/G' and copied L into it, then processed
\* '-/G' and dropped the copy
C30_Witness ==
    /\ pc = "Done"
    /\ folders = <<"/", "/G", "-/G">>
    /\ \E o \in log : o.phase = "copy" /\ o.ei = 2 /\ o.path = "/w/R/G/L"
    /\ \E o \in log : o.phase = "drop" /\ o.ei = 3 /\ o.op = "unlink"
                      /\ o.path = "/w/R/G/L"
    /\ ~exists(fs, "/w/R/G/L")
    /\ isdir(fs, "/w/R/G")

====
